---- MODULE Spec2Model ----
(***************************************************************************)
(* Chat API route of nextjs-ai-chatbot: the POST handler that proxies a    *)
(* user message to the Render backend and transcodes the backend's SSE     *)
(* stream into the UI message stream sent to the browser.                  *)
(*                                                                         *)
(* src/app/(chat)/api/chat/route.ts holds two variants of the route:       *)
(*   "node"  (lines 1-484):   node-tagged incremental frames               *)
(*   "whole" (lines 486-845): whole-content frames that are diffed         *)
(* One behaviour of the model is one request handled by one variant.       *)
(*                                                                         *)
(* Text is a sequence of one-character strings.                            *)
(***************************************************************************)
EXTENDS Integers, Sequences, FiniteSets, TLC

\* Number of upstream lines one request may read.
MaxFrames == 3

Quote == "\""
Backslash == "\\"

\* Contents the upstream may send: a plain text, a prefix-extension of it,
\* an unrelated text, and texts with a quote and with a backslash.
Texts ==
  { <<"a">>, <<"a", "b">>, <<"b">>, <<"a", Quote>>, <<Backslash>> }

NoText == << >>

\* errorText of the synthetic error event and replacement of fullContent.
ConnErrText == << "Backend connection error. Please try again." >>

NoId == 0

-----------------------------------------------------------------------------
(* JSON string conversion, as JSON.stringify / JSON.parse / the regular     *)
(* expression of the whole-content variant act on a string value.           *)

RECURSIVE JsonEscape(_)
JsonEscape(s) ==
  IF s = << >> THEN << >>
  ELSE LET c == Head(s)
       IN (IF c = Quote \/ c = Backslash THEN <<Backslash, c>> ELSE <<c>>)
            \o JsonEscape(Tail(s))

RECURSIVE JsonUnescape(_)
JsonUnescape(w) ==
  IF w = << >> THEN << >>
  ELSE IF Head(w) = Backslash /\ Len(w) >= 2
       THEN <<w[2]>> \o JsonUnescape(Tail(Tail(w)))
       ELSE <<Head(w)>> \o JsonUnescape(Tail(w))

\* match[1] of /"textDelta":"([^"]*)"/ on the serialized chunk: the characters
\* of the serialized value up to its first quote character.
RECURSIVE RegexCapture(_)
RegexCapture(w) ==
  IF w = << >> \/ Head(w) = Quote THEN << >>
  ELSE <<Head(w)>> \o RegexCapture(Tail(w))

StartsWith(s, p) ==
  /\ Len(p) <= Len(s)
  /\ SubSeq(s, 1, Len(p)) = p

Slice(s, n) == SubSeq(s, n + 1, Len(s))

-----------------------------------------------------------------------------
(* Upstream lines, after line splitting, "data: " stripping and JSON.parse. *)

\* k: "nodata"    a line that does not start with "data: "
\*    "done"      payload [DONE]
\*    "malformed" payload on which JSON.parse throws
\*    "null"      payload null (property access on it throws)
\*    "obj"       a JSON object
\* content = NoText stands for an absent, empty or non-string content.
NodeFrame(k, type, node, content, error) ==
  [k |-> k, type |-> type, node |-> node, content |-> content, error |-> error]

NodeFrames ==
  { NodeFrame(k, "none", "none", NoText, NoText) :
      k \in {"nodata", "done", "malformed", "null"} }
  \cup { NodeFrame("obj", "none", n, c, NoText) :
           n \in {"agent", "model", "tools"}, c \in {<<"a">>, <<"a", Quote>>, <<Backslash>>} }
  \cup { NodeFrame("obj", "ping", "none", NoText, NoText),
         NodeFrame("obj", "ping", "agent", <<"a">>, NoText),
         NodeFrame("obj", "none", "agent", NoText, NoText),
         NodeFrame("obj", "none", "none", NoText, <<"b">>),
         NodeFrame("obj", "none", "agent", <<"b">>, <<"b">>),
         NodeFrame("obj", "none", "tools", NoText, <<"b">>) }

\* shape: "agent"     {agent: {messages: [..., {content}]}}
\*        "agentNone" {agent: {messages: []}} or a last message without
\*                    string content
\*        "output"    {output: content}
\*        "string"    a JSON string
\*        "other"     any other object, e.g. {type: "ping"}
WholeFrame(k, shape, content) ==
  [k |-> k, shape |-> shape, content |-> content]

WholeFrames ==
  { WholeFrame(k, "none", NoText) : k \in {"nodata", "done", "malformed", "null"} }
  \cup { WholeFrame("obj", s, c) : s \in {"agent", "output"}, c \in Texts }
  \cup { WholeFrame("obj", "string", <<"a">>),
         WholeFrame("obj", "agentNone", NoText),
         WholeFrame("obj", "output", NoText),
         WholeFrame("obj", "other", NoText) }

-----------------------------------------------------------------------------
(* Events of the client-facing stream.  data holds a string value in its    *)
(* serialized (JSON-escaped) form, as it is on the wire.                    *)

Ev(type, id, data) == [type |-> type, id |-> id, data |-> data]

StopReason == << "stop" >>
FinishEv == Ev("finish", NoId, StopReason)
DoneEv == Ev("[DONE]", NoId, NoText)
ConnErrEv == Ev("error", NoId, ConnErrText)
TitleEv == Ev("data-chat-title", NoId, << "title" >>)

\* Transcoder state of one transformBackendStream call.
TState(started, last) == [textStarted |-> started, lastContent |-> last]

-----------------------------------------------------------------------------
(* transformBackendStream: what one complete upstream line makes the        *)
(* generator yield, and the transcoder state it leaves.                     *)

IsTextNode(f) == f.node = "agent" \/ f.node = "model"

\* NodeYields without the node test of line 209.
NodeYieldsAnyNode(f, st, tid) ==
  IF f.k # "obj" THEN << >>
  ELSE IF f.type = "ping" THEN << Ev("data-heartbeat", NoId, NoText) >>
  ELSE IF f.content # NoText
       THEN (IF st.textStarted THEN << >>
             ELSE << Ev("text-start", tid, NoText) >>)
            \o << Ev("text-delta", tid, JsonEscape(f.content)) >>
  ELSE IF f.error # NoText THEN << Ev("error", NoId, JsonEscape(f.error)) >>
  ELSE << >>

\* NodeYields with the ping test of lines 198-203 after the content test.
NodeYieldsPingLast(f, st, tid) ==
  IF f.k # "obj" THEN << >>
  ELSE IF f.content # NoText
       THEN IF IsTextNode(f)
            THEN (IF st.textStarted THEN << >>
                  ELSE << Ev("text-start", tid, NoText) >>)
                 \o << Ev("text-delta", tid, JsonEscape(f.content)) >>
            ELSE << >>
  ELSE IF f.type = "ping" THEN << Ev("data-heartbeat", NoId, NoText) >>
  ELSE IF f.error # NoText THEN << Ev("error", NoId, JsonEscape(f.error)) >>
  ELSE << >>

\* NodeYields without the text-start of lines 211-215.
NodeYieldsNoStart(f, st, tid) ==
  IF f.k # "obj" THEN << >>
  ELSE IF f.type = "ping" THEN << Ev("data-heartbeat", NoId, NoText) >>
  ELSE IF f.content # NoText
       THEN IF IsTextNode(f)
            THEN << Ev("text-delta", tid, JsonEscape(f.content)) >>
            ELSE << >>
  ELSE IF f.error # NoText THEN << Ev("error", NoId, JsonEscape(f.error)) >>
  ELSE << >>

\* NodeYields with the catch of lines 226-228 yielding an error event.
NodeYieldsParseError(f, st, tid) ==
  IF f.k \in {"malformed", "null"}
  THEN << Ev("error", NoId, << "parse error" >>) >>
  ELSE IF f.k # "obj" THEN << >>
  ELSE IF f.type = "ping" THEN << Ev("data-heartbeat", NoId, NoText) >>
  ELSE IF f.content # NoText
       THEN IF IsTextNode(f)
            THEN (IF st.textStarted THEN << >>
                  ELSE << Ev("text-start", tid, NoText) >>)
                 \o << Ev("text-delta", tid, JsonEscape(f.content)) >>
            ELSE << >>
  ELSE IF f.error # NoText THEN << Ev("error", NoId, JsonEscape(f.error)) >>
  ELSE << >>

\* NodeYields without the textStarted test of line 211: every content frame
\* of the agent/model step opens the span again.
NodeYieldsRestart(f, st, tid) ==
  IF f.k # "obj" THEN << >>
  ELSE IF f.type = "ping" THEN << Ev("data-heartbeat", NoId, NoText) >>
  ELSE IF f.content # NoText
       THEN IF IsTextNode(f)
            THEN << Ev("text-start", tid, NoText),
                    Ev("text-delta", tid, JsonEscape(f.content)) >>
            ELSE << >>
  ELSE IF f.error # NoText THEN << Ev("error", NoId, JsonEscape(f.error)) >>
  ELSE << >>

\* NodeYields with the error branch of lines 222-225 closing an open span.
NodeYieldsErrorEnds(f, st, tid) ==
  IF f.k # "obj" THEN << >>
  ELSE IF f.type = "ping" THEN << Ev("data-heartbeat", NoId, NoText) >>
  ELSE IF f.content # NoText
       THEN IF IsTextNode(f)
            THEN (IF st.textStarted THEN << >>
                  ELSE << Ev("text-start", tid, NoText) >>)
                 \o << Ev("text-delta", tid, JsonEscape(f.content)) >>
            ELSE << >>
  ELSE IF f.error # NoText
       THEN << Ev("error", NoId, JsonEscape(f.error)) >>
            \o (IF st.textStarted THEN << Ev("text-end", tid, NoText) >> ELSE << >>)
  ELSE << >>

\* Node-tagged variant, lines 184-230.
NodeYields(f, st, tid) ==
  IF f.k # "obj" THEN << >>
  ELSE IF f.type = "ping" THEN << Ev("data-heartbeat", NoId, NoText) >>
  ELSE IF f.content # NoText
       THEN IF IsTextNode(f)
            THEN (IF st.textStarted THEN << >>
                  ELSE << Ev("text-start", tid, NoText) >>)
                 \o << Ev("text-delta", tid, JsonEscape(f.content)) >>
            ELSE << >>
  ELSE IF f.error # NoText THEN << Ev("error", NoId, JsonEscape(f.error)) >>
  ELSE << >>

\* NodeAfter without the assignment of line 212.
NodeAfterNeverStarted(f, st) == st

NodeAfter(f, st) ==
  IF f.k = "obj" /\ f.type # "ping" /\ f.content # NoText /\ IsTextNode(f)
  THEN TState(TRUE, st.lastContent)
  ELSE st

\* Whole-content variant, lines 607-621: the content a parsed payload carries.
WholeContent(f) ==
  IF f.k = "obj" /\ f.shape \in {"agent", "output", "string"} THEN f.content
  ELSE NoText

\* WholeDelta that slices whenever the content is longer, without the
\* startsWith test of line 625.
WholeDeltaNoPrefixTest(content, last) ==
  IF content # NoText /\ content # last
  THEN IF Len(content) >= Len(last) THEN Slice(content, Len(last)) ELSE content
  ELSE NoText

\* Lines 624-627.
WholeDelta(content, last) ==
  IF content # NoText /\ content # last
  THEN IF StartsWith(content, last) THEN Slice(content, Len(last)) ELSE content
  ELSE NoText

\* Whole-content variant, lines 591-640.
WholeYields(f, st) ==
  IF f.k = "done" THEN << FinishEv >>
  ELSE IF WholeDelta(WholeContent(f), st.lastContent) # NoText
       THEN << Ev("text-delta", NoId,
                  JsonEscape(WholeDelta(WholeContent(f), st.lastContent))) >>
       ELSE << >>

WholeAfter(f, st) ==
  IF f.k # "done" /\ WholeDelta(WholeContent(f), st.lastContent) # NoText
  THEN TState(st.textStarted, WholeContent(f))
  ELSE st

\* End of the node-tagged generator, lines 233-237.
NodeEndYields(st, tid) ==
  IF st.textStarted THEN << Ev("text-end", tid, NoText) >> ELSE << >>

-----------------------------------------------------------------------------
(* Accumulation of the text to persist, by the consumer of the generator.   *)

\* Lines 375-388: JSON.parse of the chunk, then parsed.delta.
NodeAccumulate(fc, ev) ==
  IF ev.type = "text-delta" /\ JsonUnescape(ev.data) # NoText
  THEN fc \o JsonUnescape(ev.data)
  ELSE fc

\* Lines 760-764: the regular expression on the serialized chunk.
WholeAccumulate(fc, ev) ==
  IF ev.type = "text-delta" THEN fc \o RegexCapture(ev.data) ELSE fc

-----------------------------------------------------------------------------
(* The decoding loop of transformBackendStream on bytes: lines 171-186.     *)
(* A byte and a character are strings; a chunk and a text are sequences.    *)

\* Number of complete lines in the byte streams the decoding is checked on.
MaxLines == 2

LF == "\n"
CR == "\r"

\* The two bytes of a two-byte UTF-8 sequence, the character they encode, and
\* the replacement character of an invalid sequence.
Lead == "0xC3"
Cont == "0xA9"
EAcute == "U+00E9"
Replacement == "U+FFFD"

\* What the UTF-8 decoder emits for the byte at position i of b: the
\* character of a complete sequence at its first byte, the replacement
\* character for a byte that belongs to no sequence, and nothing (Held) for
\* a consumed second byte and for a first byte at the very end.
Held == ""

Utf8Unit(b, i) ==
  IF b[i] = Lead
  THEN IF i = Len(b) THEN Held
       ELSE IF b[i + 1] = Cont THEN EAcute ELSE Replacement
  ELSE IF b[i] = Cont
       THEN IF i > 1 /\ b[i - 1] = Lead THEN Held ELSE Replacement
       ELSE b[i]

Emitted(c) == c # Held

\* TextDecoder's UTF-8 decoding of the bytes bs after the held bytes carry:
\* the text decoded and the bytes of an incomplete character held back.
Utf8Decode(bs, carry) ==
  LET b == carry \o bs
  IN [text |-> SelectSeq([i \in 1..Len(b) |-> Utf8Unit(b, i)], Emitted),
      carry |-> IF b # << >> /\ b[Len(b)] = Lead THEN <<Lead>> ELSE << >>]

\* decoder.decode(value) without {stream: true}: an incomplete character at
\* the end of the chunk is replaced at once and nothing is held back.
DecodeChunkFlush(bs, carry) ==
  LET r == Utf8Decode(bs, << >>)
  IN [text |-> r.text \o (IF r.carry # << >> THEN <<Replacement>> ELSE << >>),
      carry |-> << >>]

\* decoder.decode(value, {stream: true}), line 180.
DecodeChunk(bs, carry) == Utf8Decode(bs, carry)

\* buffer.split("\n"), line 181.
RECURSIVE SplitLines(_)
SplitLines(s) ==
  IF \A i \in DOMAIN s : s[i] # LF THEN << s >>
  ELSE LET i == CHOOSE k \in DOMAIN s :
                  s[k] = LF /\ \A j \in 1..(k - 1) : s[j] # LF
       IN << SubSeq(s, 1, i - 1) >> \o SplitLines(SubSeq(s, i + 1, Len(s)))

Whitespace == {" ", "\t", CR}

RECURSIVE TrimStart(_)
TrimStart(s) ==
  IF s # << >> /\ Head(s) \in Whitespace THEN TrimStart(Tail(s)) ELSE s

RECURSIVE TrimEnd(_)
TrimEnd(s) ==
  IF s # << >> /\ s[Len(s)] \in Whitespace THEN TrimEnd(SubSeq(s, 1, Len(s) - 1))
  ELSE s

\* String.prototype.trim, line 186.
Trim(s) == TrimEnd(TrimStart(s))

DataPrefix == << "d", "a", "t", "a", ":", " " >>

DonePayload == << "[", "D", "O", "N", "E", "]" >>

\* {"node":"agent","content":"..."}, the backend format of lines 141-144.
JsonHead ==
  << "{", Quote, "n", "o", "d", "e", Quote, ":", Quote, "a", "g", "e", "n", "t",
     Quote, ",", Quote, "c", "o", "n", "t", "e", "n", "t", Quote, ":", Quote >>

JsonTail == << Quote, "}" >>

AgentPayload(c) == JsonHead \o JsonEscape(c) \o JsonTail

\* JSON.parse of a payload, line 195, for the payloads of the byte streams:
\* an agent frame, or a text on which JSON.parse throws.
ParsePayload(data) ==
  IF data = DonePayload THEN NodeFrame("done", "none", "none", NoText, NoText)
  ELSE IF /\ Len(data) >= Len(JsonHead) + Len(JsonTail)
          /\ StartsWith(data, JsonHead)
          /\ SubSeq(data, Len(data) - Len(JsonTail) + 1, Len(data)) = JsonTail
          /\ LET m == SubSeq(data, Len(JsonHead) + 1, Len(data) - Len(JsonTail))
             IN JsonEscape(JsonUnescape(m)) = m
       THEN NodeFrame("obj", "none", "agent",
                      JsonUnescape(SubSeq(data, Len(JsonHead) + 1,
                                          Len(data) - Len(JsonTail))),
                      NoText)
       ELSE NodeFrame("malformed", "none", "none", NoText, NoText)

\* State of the decoding loop: the bytes the decoder holds back, buffer,
\* textStarted, and the payloads seen and the events yielded so far.
DecState(carry, buffer, started, payloads, yielded) ==
  [carry |-> carry, buffer |-> buffer, textStarted |-> started,
   payloads |-> payloads, yielded |-> yielded]

\* One line of the for loop, lines 184-230.
LineStep(d, line, tid) ==
  IF ~StartsWith(line, DataPrefix) THEN d
  ELSE LET data == Trim(Slice(line, Len(DataPrefix)))
           f == ParsePayload(data)
           st == TState(d.textStarted, NoText)
       IN DecState(d.carry, d.buffer, NodeAfter(f, st).textStarted,
                   Append(d.payloads, data),
                   d.yielded \o NodeYields(f, st, tid))

RECURSIVE FoldLines(_, _, _)
FoldLines(d, lines, tid) ==
  IF lines = << >> THEN d
  ELSE FoldLines(LineStep(d, Head(lines), tid), Tail(lines), tid)

\* One turn of the while loop on the chunk reader.read() delivered: 177-230.
DecodeStep(d, chunk, tid) ==
  LET r == DecodeChunk(chunk, d.carry)
      lines == SplitLines(d.buffer \o r.text)
  IN FoldLines(DecState(r.carry, lines[Len(lines)], d.textStarted,
                        d.payloads, d.yielded),
               SubSeq(lines, 1, Len(lines) - 1), tid)

DecStart == DecState(<< >>, << >>, FALSE, << >>, << >>)

\* EndYields with the rest of buffer handled as a last line once the stream
\* has ended.
EndYieldsFlush(d, tid) ==
  LET e == LineStep(d, d.buffer, tid)
  IN e.yielded \o NodeEndYields(TState(e.textStarted, NoText), tid)

\* All the generator has yielded when it completes after done: lines 178 and
\* 233-237.  buffer is not looked at again.
EndYields(d, tid) ==
  d.yielded \o NodeEndYields(TState(d.textStarted, NoText), tid)

\* The lines an upstream sends, without their line feed.
LinesSent ==
  { DataPrefix \o AgentPayload(<<Lead, Cont>>),
    DataPrefix \o AgentPayload(<<"x">>) \o <<CR>>,
    DataPrefix \o DonePayload,
    << Lead, "x" >> }

\* What an upstream sends after its last line feed: nothing, or an agent
\* frame without its line feed.
TailsSent == { << >>, DataPrefix \o AgentPayload(<<"y">>) }

RECURSIVE JoinLines(_)
JoinLines(ls) ==
  IF ls = << >> THEN << >> ELSE Head(ls) \o <<LF>> \o JoinLines(Tail(ls))

Upstreams ==
  { JoinLines(ls) \o t :
      ls \in UNION { [1..k -> LinesSent] : k \in 0..MaxLines }, t \in TailsSent }

-----------------------------------------------------------------------------
VARIABLES
  variant,       \* "node" or "whole": which copy of the route serves the request
  pc,            \* position of the POST handler / of transformedStream.start
  response,      \* what POST returned: "none", "stream" or an error code
  backendCalls,  \* number of fetch calls issued to the backend
  backend,       \* outcome of callRenderBackend: "none" before the call, "threw",
                 \* "body" (a response with a body), "nobody" (a response without)
  urlSet,        \* RENDER_BACKEND_URL is configured
  msgRole,       \* message?.role of the parsed body: "user", "other", "none" before parsing
  chatSaved,     \* saveChat stored a new chat record
  userSaved,     \* saveMessages stored the user message
  titlePromise,  \* titlePromise !== null
  uuids,         \* number of generateUUID calls made
  messageId,     \* assistantMessageId
  textId,        \* textId
  nRead,         \* number of upstream lines read
  tstate,        \* textStarted / lastContent of the generator
  pending,       \* events the generator yields for the current line, not yet consumed
  readerLocks,   \* number of getReader calls
  readerReleases,\* number of releaseLock calls
  sink,          \* state of the response stream: "none", "open", "closed", "cancelled", "errored"
  isClosed,      \* the isClosed flag of the node-tagged variant
  closeCalls,    \* number of controller.close calls
  errorCalls,    \* number of controller.error calls
  wrote,         \* events handed to safeEnqueue / controller.enqueue, in order
  out,           \* events accepted by the response stream, in order
  fullContent,   \* accumulated text
  saved,         \* assistant texts stored by saveMessages, in order
  titleUpdates,  \* number of updateChatTitleById calls
  streamFailed,  \* the generator raised (reader.read rejected or no body)
  last,          \* history: the line read last, what it yielded, state before/after
  textIn,        \* history: contents of the agent/model content frames read, in order
  onlyText,      \* history: every line read was an agent/model content frame or [DONE]
  extending,     \* history: every content read extended the content before it
  derived,       \* history: the events the generator yielded, in the order yielded
  timer,         \* the abort timer of callRenderBackend: "none", "armed", "cleared"
  stalled,       \* the upstream has stopped delivering without closing the connection
  upstream,      \* decoding alone: the bytes the upstream sends
  delivered,     \* decoding alone: number of bytes reader.read() has delivered
  dec,           \* decoding alone: decoder, buffer, textStarted and what was yielded
  midChar,       \* decoding alone, history: a chunk ended inside a two-byte character
  rq,            \* two requests: per request, position, events and history
  cells,         \* two requests: textStarted, isClosed and fullContent of each start()
  chats,         \* DELETE: the chat table, the owner of each chat id or Absent
  chatsBefore,   \* DELETE, history: the chat table when the request arrived
  delPc,         \* DELETE: position of the handler
  delId,         \* DELETE: searchParams.get("id")
  delSession,    \* DELETE: session.user.id, NoUser without a session user
  delChat,       \* DELETE: userId of the chat getChatById returned, or Absent
  delResponse,   \* DELETE: what the handler returned
  deleteCalls    \* DELETE: number of deleteChatById calls

pre == << urlSet, msgRole, chatSaved, userSaved >>

hist == << last, textIn, onlyText, extending, derived >>

\* The state of the decoding loop taken alone.
chunkVars == << upstream, delivered, dec, midChar >>

\* The state of two requests served at the same time.
twoVars == << rq, cells >>

\* What no step of a request changes.
\* The state of a DELETE request and of the chat table.
delVars ==
  << chats, chatsBefore, delPc, delId, delSession, delChat, delResponse,
     deleteCalls >>

aux == << stalled, chunkVars, twoVars, delVars >>

\* The state of one request.
reqVars ==
  << variant, pc, response, backendCalls, backend, pre, titlePromise, uuids,
     messageId, textId, nRead, tstate, pending, readerLocks, readerReleases,
     sink, isClosed, closeCalls, errorCalls, wrote, out, fullContent, saved,
     titleUpdates, streamFailed, hist, timer >>

vars == << reqVars, aux >>

\* The lines the upstream of the request's variant may send.
Frames == IF variant = "node" THEN NodeFrames ELSE WholeFrames

NoFrame ==
  IF variant = "node" THEN NodeFrame("none", "none", "none", NoText, NoText)
  ELSE WholeFrame("none", "none", NoText)

\* Positions at which start() is suspended on real I/O, so that the client can
\* go away meanwhile; every other position is left synchronously.
AwaitPcs == {"read", "save", "title"}

\* Number of chat ids the chat table may hold.
MaxChats == 2

ChatIds == 1..MaxChats

\* searchParams.get("id") of a request without the parameter, or with an
\* empty one: line 465 treats both alike.
NoChatId == 0

Users == {"u1", "u2"}

\* session.user.id where auth() gave no session user.
NoUser == "nobody"

\* chat?.userId where getChatById found no chat.
Absent == "absent"

\* No DELETE request is being served.
DeleteIdle ==
  /\ chats = [c \in ChatIds |-> Absent]
  /\ chatsBefore = [c \in ChatIds |-> Absent]
  /\ delPc = "idle"
  /\ delId = NoChatId
  /\ delSession = NoUser
  /\ delChat = Absent
  /\ delResponse = "none"
  /\ deleteCalls = 0

\* The POST handler before it has run: lines 243-244 and 648-649.
PostInit ==
  /\ variant \in {"node", "whole"}
  /\ pc = "parse"
  /\ response = "none"
  /\ backendCalls = 0
  /\ backend = "none"
  /\ urlSet \in BOOLEAN
  /\ msgRole = "none"
  /\ chatSaved = FALSE
  /\ userSaved = FALSE
  /\ titlePromise = FALSE
  /\ uuids = 0
  /\ messageId = NoId
  /\ textId = NoId
  /\ nRead = 0
  /\ tstate = TState(FALSE, NoText)
  /\ pending = << >>
  /\ readerLocks = 0
  /\ readerReleases = 0
  /\ sink = "none"
  /\ isClosed = FALSE
  /\ closeCalls = 0
  /\ errorCalls = 0
  /\ wrote = << >>
  /\ out = << >>
  /\ fullContent = NoText
  /\ saved = << >>
  /\ titleUpdates = 0
  /\ streamFailed = FALSE
  /\ last = [frame |-> NoFrame, yields |-> << >>,
             before |-> TState(FALSE, NoText), after |-> TState(FALSE, NoText)]
  /\ textIn = << >>
  /\ onlyText = TRUE
  /\ extending = TRUE
  /\ derived = << >>
  /\ timer = "none"

Init ==
  /\ PostInit
  /\ stalled = FALSE
  /\ upstream = << >>
  /\ delivered = 0
  /\ dec = DecStart
  /\ midChar = FALSE
  /\ rq = << >>
  /\ cells = << >>
  /\ DeleteIdle

-----------------------------------------------------------------------------
(* The response stream controller.                                          *)

\* controller.enqueue succeeds only on a readable stream; otherwise it throws.
CanEnqueue == sink = "open"

\* SafeEnqueued that takes the events whatever the state of the stream.
SafeEnqueuedAlways(evs) == evs

\* safeEnqueue, lines 343-351: the events of evs that reach the stream.
SafeEnqueued(evs) == IF ~isClosed /\ CanEnqueue THEN evs ELSE << >>

\* controller.close: closes a readable stream, throws on any other.
SinkAfterClose == IF sink = "open" THEN "closed" ELSE sink

\* controller.error: errors a readable stream, no effect on any other.
SinkAfterError == IF sink = "open" THEN "errored" ELSE sink

\* SafeCloseCalls without the isClosed test of line 354.
SafeCloseCallsUnguarded(closed, calls) == calls + 1

\* The number of controller.close calls made once safeClose has run with
\* isClosed = closed: lines 354-357.
SafeCloseCalls(closed, calls) == IF closed THEN calls ELSE calls + 1

\* safeClose, lines 353-362.
SafeClose ==
  /\ isClosed' = TRUE
  /\ closeCalls' = SafeCloseCalls(isClosed, closeCalls)
  /\ sink' = IF isClosed THEN sink ELSE SinkAfterClose

\* catch of the whole-content start(), lines 795-798.
ControllerError ==
  /\ errorCalls' = errorCalls + 1
  /\ sink' = SinkAfterError

-----------------------------------------------------------------------------
(* POST before the backend call: lines 243-317 and 648-722.                 *)

\* The variables the handler does not touch before the backend call.
streamVars ==
  << backendCalls, backend, uuids, messageId, textId, nRead, tstate, pending,
     readerLocks, readerReleases, sink, isClosed, closeCalls, errorCalls,
     wrote, out, fullContent, saved, titleUpdates, streamFailed, hist >>

Reject(code) ==
  /\ response' = code
  /\ pc' = "done"

\* request.json() or the schema rejects the body: lines 246-251.
ParseBodyFail ==
  /\ pc = "parse"
  /\ Reject("bad_request:api")
  /\ UNCHANGED << variant, timer, aux, pre, titlePromise, streamVars >>

\* ConfigMissing without the test of lines 257-260: the missing URL is left
\* to callRenderBackend (lines 100-102).
ConfigMissingUnchecked ==
  /\ pc = "parse"
  /\ ~urlSet
  /\ \E r \in {"user", "other"} : msgRole' = r
  /\ pc' = "auth"
  /\ UNCHANGED << variant, timer, aux, response, urlSet, chatSaved, userSaved,
                  titlePromise, streamVars >>

\* The body is well-formed but the backend URL is missing: lines 257-260.
ConfigMissing ==
  /\ pc = "parse"
  /\ ~urlSet
  /\ Reject("bad_request:api")
  /\ \E r \in {"user", "other"} : msgRole' = r
  /\ UNCHANGED << variant, timer, aux, urlSet, chatSaved, userSaved, titlePromise, streamVars >>

\* The body is well-formed and the backend URL is configured: lines 246-262.
ParseBodyOk ==
  /\ pc = "parse"
  /\ urlSet
  /\ \E r \in {"user", "other"} : msgRole' = r
  /\ pc' = "auth"
  /\ UNCHANGED << variant, timer, aux, response, urlSet, chatSaved, userSaved, titlePromise,
                  streamVars >>

\* auth() yields no session user: lines 262-266.
AuthFail ==
  /\ pc = "auth"
  /\ Reject("unauthorized:chat")
  /\ UNCHANGED << variant, timer, aux, pre, titlePromise, streamVars >>

\* auth() yields a session user, getMessageCountByUserId is awaited: 262-273.
AuthOk ==
  /\ pc = "auth"
  /\ pc' = "rate"
  /\ UNCHANGED << variant, timer, aux, response, pre, titlePromise, streamVars >>

\* The message count exceeds maxMessagesPerDay: lines 275-277.
RateLimited ==
  /\ pc = "rate"
  /\ Reject("rate_limit:chat")
  /\ UNCHANGED << variant, timer, aux, pre, titlePromise, streamVars >>

\* The message count is within the limit, getChatById is awaited: 275-279.
RateOk ==
  /\ pc = "rate"
  /\ pc' = "chat"
  /\ UNCHANGED << variant, timer, aux, response, pre, titlePromise, streamVars >>

\* The chat exists and belongs to another user: lines 282-285.
ChatForeign ==
  /\ pc = "chat"
  /\ Reject("forbidden:chat")
  /\ UNCHANGED << variant, timer, aux, pre, titlePromise, streamVars >>

\* The chat exists and belongs to the session user: lines 282-297.
ChatOwn ==
  /\ pc = "chat"
  /\ pc' = IF msgRole = "user" THEN "save_user" ELSE "extract"
  /\ UNCHANGED << variant, timer, aux, response, pre, titlePromise, streamVars >>

\* No such chat and the message is not a user message: lines 286, 297, 313.
ChatNoneOther ==
  /\ pc = "chat"
  /\ msgRole # "user"
  /\ pc' = "extract"
  /\ UNCHANGED << variant, timer, aux, response, pre, titlePromise, streamVars >>

\* No such chat, user message: saveChat and the title promise, lines 286-294.
ChatNoneSave ==
  /\ pc = "chat"
  /\ msgRole = "user"
  /\ chatSaved' = TRUE
  /\ titlePromise' = TRUE
  /\ pc' = "save_user"
  /\ UNCHANGED << variant, timer, aux, response, urlSet, msgRole, userSaved, streamVars >>

\* SaveUserMessage with the saveMessages call of lines 297-310 left for
\* later: the handler goes on to the extraction without having stored.
SaveUserMessageDeferred ==
  /\ pc = "save_user"
  /\ pc' = "extract"
  /\ UNCHANGED << variant, timer, aux, response, pre, titlePromise, streamVars >>

\* saveMessages of the user message: lines 297-310.
SaveUserMessage ==
  /\ pc = "save_user"
  /\ userSaved' = TRUE
  /\ pc' = "extract"
  /\ UNCHANGED << variant, timer, aux, response, urlSet, msgRole, chatSaved, titlePromise,
                  streamVars >>

\* The answers of the outer catch: the response of a ChatSDKError the call
\* threw, or offline:chat for any other exception.
CaughtResponses == {"chat_sdk_error", "offline:chat"}

\* auth, getMessageCountByUserId, getChatById, saveChat or saveMessages
\* rejects: the outer catch answers, lines 449-458 and 810-819.
PreludeThrows ==
  /\ pc \in {"auth", "rate", "chat", "save_user"}
  /\ \E code \in CaughtResponses : Reject(code)
  /\ UNCHANGED << variant, timer, aux, pre, titlePromise, streamVars >>

\* ExtractEmpty with the test of line 315 placed after the backend call.
ExtractEmptyAfterCall ==
  /\ pc = "extract"
  /\ backendCalls' = backendCalls + 1
  /\ Reject("bad_request:api")
  /\ UNCHANGED << variant, timer, aux, pre, titlePromise, backend, uuids, messageId,
                  textId, nRead, tstate, pending, readerLocks, readerReleases,
                  sink, isClosed, closeCalls, errorCalls, wrote, out,
                  fullContent, saved, titleUpdates, streamFailed, hist >>

\* extractMessageText yields the empty string: lines 313-317.
ExtractEmpty ==
  /\ pc = "extract"
  /\ Reject("bad_request:api")
  /\ UNCHANGED << variant, timer, aux, pre, titlePromise, streamVars >>

\* extractMessageText yields text: lines 313-322.
ExtractText ==
  /\ pc = "extract"
  /\ pc' = "call"
  /\ UNCHANGED << variant, timer, aux, response, pre, titlePromise, streamVars >>

-----------------------------------------------------------------------------
(* POST: the backend call, lines 319-332 and 724-731.                       *)

\* Where start() continues once the generator is exhausted and the terminal
\* events are written: lines 407-432 and 767-794.
AfterSave == IF titlePromise THEN "title" ELSE "close"
AfterLoop == IF fullContent # NoText THEN "save" ELSE AfterSave

\* The timer once callRenderBackend has returned or thrown: the node-tagged
\* variant arms it (line 106) and clears it in its finally (line 127); the
\* whole-content variant has none (lines 536-560).
TimerAfterCall == IF variant = "node" THEN "cleared" ELSE "none"

\* callRenderBackend returns a response with status 2xx.
CallBackendOk ==
  /\ pc = "call"
  /\ backendCalls' = backendCalls + 1
  /\ timer' = TimerAfterCall
  /\ backend' \in {"body", "nobody"}
  /\ pc' = "start"
  /\ UNCHANGED << variant, aux, response, pre, titlePromise, uuids, messageId, textId,
                  nRead, tstate, pending, readerLocks, readerReleases, sink,
                  isClosed, closeCalls, errorCalls, wrote, out, fullContent,
                  saved, titleUpdates, streamFailed, hist >>

\* CallBackendFail without the return of line 325: the handler goes on to
\* build the stream.
CallBackendFailGoesOn ==
  /\ pc = "call"
  /\ backendCalls' = backendCalls + 1
  /\ timer' = TimerAfterCall
  /\ backend' = "threw"
  /\ pc' = "start"
  /\ UNCHANGED << variant, aux, response, pre, titlePromise, uuids, messageId, textId,
                  nRead, tstate, pending, readerLocks, readerReleases, sink,
                  isClosed, closeCalls, errorCalls, wrote, out, fullContent,
                  saved, titleUpdates, streamFailed, hist >>

\* CallBackendFail that calls the backend again instead of answering.
CallBackendFailRetry ==
  /\ pc = "call"
  /\ backendCalls' = backendCalls + 1
  /\ timer' = TimerAfterCall
  /\ backend' = "threw"
  /\ pc' = "call"
  /\ UNCHANGED << variant, aux, response, pre, titlePromise, uuids, messageId,
                  textId, nRead, tstate, pending, readerLocks, readerReleases,
                  sink, isClosed, closeCalls, errorCalls, wrote, out,
                  fullContent, saved, titleUpdates, streamFailed, hist >>

\* callRenderBackend throws (fetch rejects, the timeout aborts, status not ok).
CallBackendFail ==
  /\ pc = "call"
  /\ backendCalls' = backendCalls + 1
  /\ timer' = TimerAfterCall
  /\ backend' = "threw"
  /\ response' = "offline:chat"
  /\ pc' = "done"
  /\ UNCHANGED << variant, aux, pre, titlePromise, uuids, messageId, textId,
                  nRead, tstate, pending, readerLocks, readerReleases, sink,
                  isClosed, closeCalls, errorCalls, wrote, out, fullContent,
                  saved, titleUpdates, streamFailed, hist >>

\* Lines 328-332, node-tagged variant only.
NoBodyOffline ==
  /\ pc = "start"
  /\ variant = "node"
  /\ backend = "nobody"
  /\ response' = "offline:chat"
  /\ pc' = "done"
  /\ UNCHANGED << variant, timer, aux, backendCalls, backend, pre, titlePromise, uuids,
                  messageId, textId, nRead, tstate, pending, readerLocks,
                  readerReleases, sink, isClosed, closeCalls, errorCalls, wrote,
                  out, fullContent, saved, titleUpdates, streamFailed, hist >>

-----------------------------------------------------------------------------
(* transformedStream.start up to its first await on reader.read().          *)

\* Lines 335-370 and 170-177.
StartStreamNode ==
  /\ pc = "start"
  /\ variant = "node"
  /\ backend = "body"
  /\ response' = "stream"
  /\ uuids' = uuids + 2
  /\ messageId' = uuids + 1
  /\ textId' = uuids + 2
  /\ sink' = "open"
  /\ wrote' = << Ev("start", uuids + 1, NoText) >>
  /\ out' = << Ev("start", uuids + 1, NoText) >>
  /\ readerLocks' = readerLocks + 1
  /\ pc' = "read"
  /\ UNCHANGED << variant, timer, aux, backendCalls, backend, pre, titlePromise, nRead, tstate,
                  pending, readerReleases, isClosed, closeCalls, errorCalls,
                  fullContent, saved, titleUpdates, streamFailed, hist >>

\* Lines 735-756 and 572-584.
StartStreamWhole ==
  /\ pc = "start"
  /\ variant = "whole"
  /\ backend = "body"
  /\ response' = "stream"
  /\ uuids' = uuids + 1
  /\ messageId' = uuids + 1
  /\ sink' = "open"
  /\ wrote' = << Ev("message-start", uuids + 1, NoText) >>
  /\ out' = << Ev("message-start", uuids + 1, NoText) >>
  /\ readerLocks' = readerLocks + 1
  /\ pc' = "read"
  /\ UNCHANGED << variant, timer, aux, backendCalls, backend, pre, titlePromise, textId, nRead,
                  tstate, pending, readerReleases, isClosed, closeCalls,
                  errorCalls, fullContent, saved, titleUpdates, streamFailed, hist >>

\* Lines 572-575 and 795-798: without a body the generator throws before it
\* holds a reader, and start() errors the stream.
StartStreamWholeNoBody ==
  /\ pc = "start"
  /\ variant = "whole"
  /\ backend = "nobody"
  /\ response' = "stream"
  /\ uuids' = uuids + 1
  /\ messageId' = uuids + 1
  /\ wrote' = << Ev("message-start", uuids + 1, NoText) >>
  /\ out' = << Ev("message-start", uuids + 1, NoText) >>
  /\ streamFailed' = TRUE
  /\ errorCalls' = errorCalls + 1
  /\ sink' = "errored"
  /\ pc' = "done"
  /\ UNCHANGED << variant, timer, aux, backendCalls, backend, pre, titlePromise, textId, nRead,
                  tstate, pending, readerLocks, readerReleases, isClosed,
                  closeCalls, fullContent, saved, titleUpdates, hist >>

-----------------------------------------------------------------------------
(* The for-await loop: the generator reads a line, the consumer takes what  *)
(* it yields.                                                               *)

LineYields(f) ==
  IF variant = "node" THEN NodeYields(f, tstate, textId)
  ELSE WholeYields(f, tstate)

LineAfter(f) ==
  IF variant = "node" THEN NodeAfter(f, tstate) ELSE WholeAfter(f, tstate)

\* A node-tagged content frame of the agent/model step.
IsTextFrame(f) ==
  /\ variant = "node"
  /\ f.k = "obj"
  /\ f.type # "ping"
  /\ f.content # NoText
  /\ f.node \in {"agent", "model"}

\* A whole-content frame that carries a full-content value.
IsContentFrame(f) ==
  /\ variant = "whole"
  /\ f.k = "obj"
  /\ f.shape \in {"agent", "output", "string"}
  /\ f.content # NoText

LogEntry(f) ==
  [frame |-> f, yields |-> LineYields(f), before |-> tstate,
   after |-> LineAfter(f)]

\* reader.read() delivers one more complete line: lines 177-230 / 584-641.
ReadLine(f) ==
  /\ pc = "read"
  /\ nRead < MaxFrames
  /\ nRead' = nRead + 1
  /\ pending' = LineYields(f)
  /\ tstate' = LineAfter(f)
  /\ last' = LogEntry(f)
  /\ textIn' = IF IsTextFrame(f) THEN Append(textIn, f.content) ELSE textIn
  /\ onlyText' = (onlyText /\ (IsTextFrame(f) \/ f.k = "done"))
  /\ extending' = (extending /\ (IsContentFrame(f) => StartsWith(f.content, tstate.lastContent)))
  /\ derived' = derived \o LineYields(f)
  /\ pc' = IF LineYields(f) = << >> THEN "read" ELSE "yield"
  /\ UNCHANGED << variant, timer, aux, response, backendCalls, backend, pre, titlePromise,
                  uuids, messageId, textId, readerLocks, readerReleases, sink,
                  isClosed, closeCalls, errorCalls, wrote, out, fullContent,
                  saved, titleUpdates, streamFailed >>

\* ConsumeNode that hands over the event yielded last before the others.
ConsumeNodeLast ==
  /\ pc = "yield"
  /\ variant = "node"
  /\ wrote' = Append(wrote, pending[Len(pending)])
  /\ out' = out \o SafeEnqueued(<< pending[Len(pending)] >>)
  /\ fullContent' = NodeAccumulate(fullContent, pending[Len(pending)])
  /\ pending' = SubSeq(pending, 1, Len(pending) - 1)
  /\ pc' = IF Len(pending) = 1 THEN "read" ELSE "yield"
  /\ UNCHANGED << variant, timer, aux, response, backendCalls, backend, pre,
                  titlePromise, uuids, messageId, textId, nRead, tstate,
                  readerLocks, readerReleases, sink, isClosed, closeCalls,
                  errorCalls, saved, titleUpdates, streamFailed, hist >>

\* ConsumeNode that accumulates only what the stream accepted.
ConsumeNodeDeliveredOnly ==
  /\ pc = "yield"
  /\ variant = "node"
  /\ wrote' = Append(wrote, Head(pending))
  /\ out' = out \o SafeEnqueued(<< Head(pending) >>)
  /\ fullContent' = IF SafeEnqueued(<< Head(pending) >>) = << >> THEN fullContent
                    ELSE NodeAccumulate(fullContent, Head(pending))
  /\ pending' = Tail(pending)
  /\ pc' = IF Tail(pending) = << >> THEN "read" ELSE "yield"
  /\ UNCHANGED << variant, timer, aux, response, backendCalls, backend, pre,
                  titlePromise, uuids, messageId, textId, nRead, tstate,
                  readerLocks, readerReleases, sink, isClosed, closeCalls,
                  errorCalls, saved, titleUpdates, streamFailed, hist >>

\* Body of the node-tagged for-await loop, lines 370-389.
ConsumeNode ==
  /\ pc = "yield"
  /\ variant = "node"
  /\ wrote' = Append(wrote, Head(pending))
  /\ out' = out \o SafeEnqueued(<< Head(pending) >>)
  /\ fullContent' = NodeAccumulate(fullContent, Head(pending))
  /\ pending' = Tail(pending)
  /\ pc' = IF Tail(pending) = << >> THEN "read" ELSE "yield"
  /\ UNCHANGED << variant, timer, aux, response, backendCalls, backend, pre, titlePromise,
                  uuids, messageId, textId, nRead, tstate, readerLocks,
                  readerReleases, sink, isClosed, closeCalls, errorCalls, saved,
                  titleUpdates, streamFailed, hist >>

\* Body of the whole-content for-await loop, lines 756-765.
ConsumeWhole ==
  /\ pc = "yield"
  /\ variant = "whole"
  /\ CanEnqueue
  /\ wrote' = Append(wrote, Head(pending))
  /\ out' = Append(out, Head(pending))
  /\ fullContent' = WholeAccumulate(fullContent, Head(pending))
  /\ pending' = Tail(pending)
  /\ pc' = IF Tail(pending) = << >> THEN "read" ELSE "yield"
  /\ UNCHANGED << variant, timer, aux, response, backendCalls, backend, pre, titlePromise,
                  uuids, messageId, textId, nRead, tstate, readerLocks,
                  readerReleases, sink, isClosed, closeCalls, errorCalls, saved,
                  titleUpdates, streamFailed, hist >>

\* Line 757 throws on a stream that is no longer readable: the loop is left,
\* the generator is returned (line 644) and the catch of line 795 runs.
ConsumeWholeThrows ==
  /\ pc = "yield"
  /\ variant = "whole"
  /\ ~CanEnqueue
  /\ wrote' = Append(wrote, Head(pending))
  /\ pending' = << >>
  /\ readerReleases' = readerReleases + 1
  /\ ControllerError
  /\ pc' = "done"
  /\ UNCHANGED << variant, timer, aux, response, backendCalls, backend, pre, titlePromise,
                  uuids, messageId, textId, nRead, tstate, readerLocks,
                  isClosed, closeCalls, out, fullContent, saved, titleUpdates,
                  streamFailed, hist >>

\* reader.read() reports done, node-tagged variant: lines 178 and 233-240.
ReadDoneNode ==
  /\ pc = "read"
  /\ variant = "node"
  /\ pending' = NodeEndYields(tstate, textId)
  /\ derived' = derived \o NodeEndYields(tstate, textId)
  /\ readerReleases' =
       IF NodeEndYields(tstate, textId) = << >> THEN readerReleases + 1
       ELSE readerReleases
  /\ pc' = IF NodeEndYields(tstate, textId) = << >> THEN "finish" ELSE "yield_end"
  /\ UNCHANGED << variant, timer, aux, response, backendCalls, backend, pre, titlePromise,
                  uuids, messageId, textId, nRead, tstate, readerLocks, sink,
                  isClosed, closeCalls, errorCalls, wrote, out, fullContent,
                  saved, titleUpdates, streamFailed, last, textIn, onlyText,
                  extending >>

\* The consumer takes text-end and the generator finishes: lines 370-389, 239.
ConsumeEndNode ==
  /\ pc = "yield_end"
  /\ wrote' = Append(wrote, Head(pending))
  /\ out' = out \o SafeEnqueued(<< Head(pending) >>)
  /\ fullContent' = NodeAccumulate(fullContent, Head(pending))
  /\ pending' = Tail(pending)
  /\ readerReleases' = readerReleases + 1
  /\ pc' = "finish"
  /\ UNCHANGED << variant, timer, aux, response, backendCalls, backend, pre, titlePromise,
                  uuids, messageId, textId, nRead, tstate, readerLocks, sink,
                  isClosed, closeCalls, errorCalls, saved, titleUpdates,
                  streamFailed, hist >>

\* reader.read() reports done, whole-content variant: lines 585, 644, 767.
ReadDoneWhole ==
  /\ pc = "read"
  /\ variant = "whole"
  /\ readerReleases' = readerReleases + 1
  /\ pc' = AfterLoop
  /\ UNCHANGED << variant, timer, aux, response, backendCalls, backend, pre, titlePromise,
                  uuids, messageId, textId, nRead, tstate, pending, readerLocks,
                  sink, isClosed, closeCalls, errorCalls, wrote, out,
                  fullContent, saved, titleUpdates, streamFailed, hist >>

\* reader.read() rejects, node-tagged variant: lines 239 and 390-397.
ReadFailNode ==
  /\ pc = "read"
  /\ variant = "node"
  /\ streamFailed' = TRUE
  /\ readerReleases' = readerReleases + 1
  /\ wrote' = Append(wrote, ConnErrEv)
  /\ out' = out \o SafeEnqueued(<< ConnErrEv >>)
  /\ fullContent' = ConnErrText
  /\ pc' = "finish"
  /\ UNCHANGED << variant, timer, aux, response, backendCalls, backend, pre, titlePromise,
                  uuids, messageId, textId, nRead, tstate, pending, readerLocks,
                  sink, isClosed, closeCalls, errorCalls, saved, titleUpdates, hist >>

\* reader.read() rejects, whole-content variant: lines 644 and 795-798.
ReadFailWhole ==
  /\ pc = "read"
  /\ variant = "whole"
  /\ streamFailed' = TRUE
  /\ readerReleases' = readerReleases + 1
  /\ ControllerError
  /\ pc' = "done"
  /\ UNCHANGED << variant, timer, aux, response, backendCalls, backend, pre, titlePromise,
                  uuids, messageId, textId, nRead, tstate, pending, readerLocks,
                  isClosed, closeCalls, wrote, out, fullContent, saved,
                  titleUpdates, hist >>

-----------------------------------------------------------------------------
(* After the loop: terminal events, persistence, title, close.              *)

\* Lines 399-408.
FinishNode ==
  /\ pc = "finish"
  /\ wrote' = wrote \o << FinishEv, DoneEv >>
  /\ out' = out \o SafeEnqueued(<< FinishEv, DoneEv >>)
  /\ pc' = AfterLoop
  /\ UNCHANGED << variant, timer, aux, response, backendCalls, backend, pre, titlePromise,
                  uuids, messageId, textId, nRead, tstate, pending, readerLocks,
                  readerReleases, sink, isClosed, closeCalls, errorCalls,
                  fullContent, saved, titleUpdates, streamFailed, hist >>

\* saveMessages resolves: lines 409-421 / 769-781.
SaveOk ==
  /\ pc = "save"
  /\ saved' = Append(saved, fullContent)
  /\ pc' = AfterSave
  /\ UNCHANGED << variant, timer, aux, response, backendCalls, backend, pre, titlePromise,
                  uuids, messageId, textId, nRead, tstate, pending, readerLocks,
                  readerReleases, sink, isClosed, closeCalls, errorCalls, wrote,
                  out, fullContent, titleUpdates, streamFailed, hist >>

\* AwaitFailsNode with the catch of lines 433-436 writing an error event
\* before it closes.
AwaitFailsNodeSurfaced ==
  /\ pc \in {"save", "title"}
  /\ variant = "node"
  /\ wrote' = Append(wrote, ConnErrEv)
  /\ out' = out \o SafeEnqueued(<< ConnErrEv >>)
  /\ SafeClose
  /\ pc' = "done"
  /\ UNCHANGED << variant, timer, aux, response, backendCalls, backend, pre,
                  titlePromise, uuids, messageId, textId, nRead, tstate, pending,
                  readerLocks, readerReleases, errorCalls, fullContent, saved,
                  titleUpdates, streamFailed, hist >>

\* saveMessages or titlePromise rejects, node-tagged variant: lines 433-436.
AwaitFailsNode ==
  /\ pc \in {"save", "title"}
  /\ variant = "node"
  /\ SafeClose
  /\ pc' = "done"
  /\ UNCHANGED << variant, timer, aux, response, backendCalls, backend, pre, titlePromise,
                  uuids, messageId, textId, nRead, tstate, pending, readerLocks,
                  readerReleases, errorCalls, wrote, out, fullContent, saved,
                  titleUpdates, streamFailed, hist >>

\* saveMessages or titlePromise rejects, whole-content variant: lines 795-798.
AwaitFailsWhole ==
  /\ pc \in {"save", "title"}
  /\ variant = "whole"
  /\ ControllerError
  /\ pc' = "done"
  /\ UNCHANGED << variant, timer, aux, response, backendCalls, backend, pre, titlePromise,
                  uuids, messageId, textId, nRead, tstate, pending, readerLocks,
                  readerReleases, isClosed, closeCalls, wrote, out, fullContent,
                  saved, titleUpdates, streamFailed, hist >>

\* titlePromise resolves, node-tagged variant: lines 425-432.
TitleNode ==
  /\ pc = "title"
  /\ variant = "node"
  /\ titleUpdates' = titleUpdates + 1
  /\ SafeClose
  /\ pc' = "done"
  /\ UNCHANGED << variant, timer, aux, response, backendCalls, backend, pre, titlePromise,
                  uuids, messageId, textId, nRead, tstate, pending, readerLocks,
                  readerReleases, errorCalls, wrote, out, fullContent, saved,
                  streamFailed, hist >>

\* titlePromise resolves, whole-content variant: lines 784-794.
TitleWhole ==
  /\ pc = "title"
  /\ variant = "whole"
  /\ CanEnqueue
  /\ wrote' = Append(wrote, TitleEv)
  /\ out' = Append(out, TitleEv)
  /\ titleUpdates' = titleUpdates + 1
  /\ closeCalls' = closeCalls + 1
  /\ sink' = SinkAfterClose
  /\ pc' = "done"
  /\ UNCHANGED << variant, timer, aux, response, backendCalls, backend, pre, titlePromise,
                  uuids, messageId, textId, nRead, tstate, pending, readerLocks,
                  readerReleases, isClosed, errorCalls, fullContent, saved,
                  streamFailed, hist >>

\* Line 786 throws on a stream that is no longer readable: lines 795-798.
TitleWholeThrows ==
  /\ pc = "title"
  /\ variant = "whole"
  /\ ~CanEnqueue
  /\ wrote' = Append(wrote, TitleEv)
  /\ ControllerError
  /\ pc' = "done"
  /\ UNCHANGED << variant, timer, aux, response, backendCalls, backend, pre, titlePromise,
                  uuids, messageId, textId, nRead, tstate, pending, readerLocks,
                  readerReleases, isClosed, closeCalls, out, fullContent, saved,
                  titleUpdates, streamFailed, hist >>

\* Line 432, without a title to wait for.
CloseNode ==
  /\ pc = "close"
  /\ variant = "node"
  /\ SafeClose
  /\ pc' = "done"
  /\ UNCHANGED << variant, timer, aux, response, backendCalls, backend, pre, titlePromise,
                  uuids, messageId, textId, nRead, tstate, pending, readerLocks,
                  readerReleases, errorCalls, wrote, out, fullContent, saved,
                  titleUpdates, streamFailed, hist >>

\* Lines 794-798, without a title to wait for: controller.close throws on a
\* stream that is no longer readable, and the catch calls controller.error.
CloseWhole ==
  /\ pc = "close"
  /\ variant = "whole"
  /\ closeCalls' = closeCalls + 1
  /\ sink' = SinkAfterClose
  /\ errorCalls' = IF sink = "open" THEN errorCalls ELSE errorCalls + 1
  /\ pc' = "done"
  /\ UNCHANGED << variant, timer, aux, response, backendCalls, backend, pre, titlePromise,
                  uuids, messageId, textId, nRead, tstate, pending, readerLocks,
                  readerReleases, isClosed, wrote, out, fullContent, saved,
                  titleUpdates, streamFailed, hist >>

\* The browser goes away: the response stream is cancelled.
ClientDisconnect ==
  /\ pc \in AwaitPcs
  /\ sink = "open"
  /\ sink' = "cancelled"
  /\ UNCHANGED << variant, timer, aux, pc, response, backendCalls, backend, pre, titlePromise,
                  uuids, messageId, textId, nRead, tstate, pending, readerLocks,
                  readerReleases, isClosed, closeCalls, errorCalls, wrote, out,
                  fullContent, saved, titleUpdates, streamFailed, hist >>

Next ==
  \/ ParseBodyFail
  \/ ConfigMissing
  \/ ParseBodyOk
  \/ AuthFail
  \/ AuthOk
  \/ RateLimited
  \/ RateOk
  \/ ChatForeign
  \/ ChatOwn
  \/ ChatNoneOther
  \/ ChatNoneSave
  \/ SaveUserMessage
  \/ PreludeThrows
  \/ ExtractEmpty
  \/ ExtractText
  \/ CallBackendOk
  \/ CallBackendFail
  \/ NoBodyOffline
  \/ StartStreamNode
  \/ StartStreamWhole
  \/ StartStreamWholeNoBody
  \/ \E f \in Frames : ReadLine(f)
  \/ ConsumeNode
  \/ ConsumeWhole
  \/ ConsumeWholeThrows
  \/ ReadDoneNode
  \/ ConsumeEndNode
  \/ ReadDoneWhole
  \/ ReadFailNode
  \/ ReadFailWhole
  \/ FinishNode
  \/ SaveOk
  \/ AwaitFailsNode
  \/ AwaitFailsWhole
  \/ TitleNode
  \/ TitleWhole
  \/ TitleWholeThrows
  \/ CloseNode
  \/ CloseWhole
  \/ ClientDisconnect

Spec == Init /\ [][Next]_vars

-----------------------------------------------------------------------------
(* An upstream that stops delivering without closing the connection.        *)

\* fetch is issued and no response headers ever arrive: lines 105-119 and
\* 544-553.  The node-tagged variant has armed its timer (line 106); the
\* whole-content variant has none.
FetchStalls ==
  /\ pc = "call"
  /\ backendCalls' = backendCalls + 1
  /\ timer' = IF variant = "node" THEN "armed" ELSE "none"
  /\ stalled' = TRUE
  /\ pc' = "fetch"
  /\ UNCHANGED << variant, chunkVars, twoVars, delVars, response, backend, pre, titlePromise, uuids,
                  messageId, textId, nRead, tstate, pending, readerLocks,
                  readerReleases, sink, isClosed, closeCalls, errorCalls, wrote,
                  out, fullContent, saved, titleUpdates, streamFailed, hist >>

\* The timer fires while fetch is pending: controller.abort() (line 106), fetch
\* rejects, the finally clears the timer (line 127), POST answers offline:chat
\* (lines 323-326).
TimeoutAbort ==
  /\ pc = "fetch"
  /\ timer = "armed"
  /\ timer' = "cleared"
  /\ backend' = "threw"
  /\ response' = "offline:chat"
  /\ pc' = "done"
  /\ UNCHANGED << variant, aux, backendCalls, pre, titlePromise, uuids,
                  messageId, textId, nRead, tstate, pending, readerLocks,
                  readerReleases, sink, isClosed, closeCalls, errorCalls, wrote,
                  out, fullContent, saved, titleUpdates, streamFailed, hist >>

\* reader.read() never settles: line 177 / 584.  The timer was cleared when
\* callRenderBackend returned.
ReadStalls ==
  /\ pc = "read"
  /\ stalled' = TRUE
  /\ pc' = "read_stalled"
  /\ UNCHANGED << variant, timer, chunkVars, twoVars, delVars, response, backendCalls, backend, pre,
                  titlePromise, uuids, messageId, textId, nRead, tstate, pending,
                  readerLocks, readerReleases, sink, isClosed, closeCalls,
                  errorCalls, wrote, out, fullContent, saved, titleUpdates,
                  streamFailed, hist >>

NextLive ==
  \/ Next
  \/ FetchStalls
  \/ TimeoutAbort
  \/ ReadStalls

\* Every step of the handler that can be taken is taken in the end, and an
\* armed timer fires.
SpecLive == Init /\ [][NextLive]_vars /\ WF_vars(NextLive)

-----------------------------------------------------------------------------
(* The decoding loop taken alone: a node-tagged request that has started    *)
(* its stream reads a byte stream in chunks cut at arbitrary places.        *)

\* The state of a node-tagged request at its first reader.read().
StartedNode ==
  /\ variant = "node"
  /\ pc = "read"
  /\ response = "stream"
  /\ backendCalls = 1
  /\ backend = "body"
  /\ urlSet = TRUE
  /\ msgRole = "user"
  /\ chatSaved = FALSE
  /\ userSaved = TRUE
  /\ titlePromise = FALSE
  /\ uuids = 2
  /\ messageId = 1
  /\ textId = 2
  /\ nRead = 0
  /\ tstate = TState(FALSE, NoText)
  /\ pending = << >>
  /\ readerLocks = 1
  /\ readerReleases = 0
  /\ sink = "open"
  /\ isClosed = FALSE
  /\ closeCalls = 0
  /\ errorCalls = 0
  /\ wrote = << Ev("start", 1, NoText) >>
  /\ out = << Ev("start", 1, NoText) >>
  /\ fullContent = NoText
  /\ saved = << >>
  /\ titleUpdates = 0
  /\ streamFailed = FALSE
  /\ last = [frame |-> NoFrame, yields |-> << >>,
             before |-> TState(FALSE, NoText), after |-> TState(FALSE, NoText)]
  /\ textIn = << >>
  /\ onlyText = TRUE
  /\ extending = TRUE
  /\ derived = << >>
  /\ timer = "cleared"

InitChunk ==
  /\ StartedNode
  /\ stalled = FALSE
  /\ upstream \in Upstreams
  /\ delivered = 0
  /\ dec = DecStart
  /\ midChar = FALSE
  /\ rq = << >>
  /\ cells = << >>
  /\ DeleteIdle

\* reader.read() delivers the next n bytes as one chunk: lines 177-230.
FeedChunk(n) ==
  /\ pc = "read"
  /\ delivered + n <= Len(upstream)
  /\ dec' = DecodeStep(dec, SubSeq(upstream, delivered + 1, delivered + n), textId)
  /\ delivered' = delivered + n
  /\ midChar' = (midChar \/ upstream[delivered + n] = Lead)
  /\ UNCHANGED << reqVars, upstream, stalled, twoVars, delVars >>

\* reader.read() reports done after the last byte: lines 178 and 233-240.
EndOfChunks ==
  /\ pc = "read"
  /\ delivered = Len(upstream)
  /\ derived' = EndYields(dec, textId)
  /\ readerReleases' = readerReleases + 1
  /\ pc' = "gen_done"
  /\ UNCHANGED << variant, timer, aux, response, backendCalls, backend, pre,
                  titlePromise, uuids, messageId, textId, nRead, tstate, pending,
                  readerLocks, sink, isClosed, closeCalls, errorCalls, wrote,
                  out, fullContent, saved, titleUpdates, streamFailed, last,
                  textIn, onlyText, extending >>

NextChunk ==
  \/ \E n \in 1..Len(upstream) : FeedChunk(n)
  \/ EndOfChunks

SpecChunk == InitChunk /\ [][NextChunk]_vars

-----------------------------------------------------------------------------
(* Two node-tagged requests served at the same time, each by its own        *)
(* start() call and its own transformBackendStream call, from their first   *)
(* reader.read() on.                                                        *)

\* Number of upstream lines each of the two requests may read.
MaxFramesEach == 2

Reqs == {1, 2}

\* assistantMessageId and textId of request r: generateUUID does not repeat.
MessageIdOf(r) == 2 * r - 1
TextIdOf(r) == 2 * r

\* Scope with textStarted, isClosed and fullContent declared at module level.
ScopeShared(r) == 1

\* The cell that holds textStarted, isClosed and fullContent of request r:
\* they are locals of its generator call (line 173) and of its start() call
\* (lines 339-340).
Scope(r) == r

Cell(started, closed, content) ==
  [textStarted |-> started, isClosed |-> closed, fullContent |-> content]

\* safeEnqueue, lines 343-351, on the flag and the stream of one request.
SafeEnqueuedAt(closed, s, evs) == IF ~closed /\ s = "open" THEN evs ELSE << >>

TwoFrames ==
  { NodeFrame("obj", "none", "agent", <<"a">>, NoText),
    NodeFrame("obj", "none", "tools", <<"a">>, NoText),
    NodeFrame("obj", "ping", "none", NoText, NoText) }

InitTwo ==
  /\ StartedNode
  /\ stalled = FALSE
  /\ upstream = << >>
  /\ delivered = 0
  /\ dec = DecStart
  /\ midChar = FALSE
  /\ rq = [r \in Reqs |->
            [pc |-> "read", pending |-> << >>,
             wrote |-> << Ev("start", MessageIdOf(r), NoText) >>,
             out |-> << Ev("start", MessageIdOf(r), NoText) >>,
             sink |-> "open", closeCalls |-> 0, saved |-> << >>,
             frames |-> << >>, failed |-> FALSE]]
  /\ cells = [c \in Reqs |-> Cell(FALSE, FALSE, NoText)]
  /\ DeleteIdle

\* What the steps of the two requests leave alone.
oneVars == << reqVars, stalled, chunkVars, delVars >>

\* Request r reads one more line: lines 177-230.
TwoRead(r, f) ==
  /\ rq[r].pc = "read"
  /\ Len(rq[r].frames) < MaxFramesEach
  /\ LET st == TState(cells[Scope(r)].textStarted, NoText)
         ys == NodeYields(f, st, TextIdOf(r))
     IN /\ rq' = [rq EXCEPT ![r].pending = ys,
                            ![r].frames = Append(@, f),
                            ![r].pc = IF ys = << >> THEN "read" ELSE "yield"]
        /\ cells' = [cells EXCEPT
                       ![Scope(r)].textStarted = NodeAfter(f, st).textStarted]
  /\ UNCHANGED oneVars

\* Body of the for-await loop of request r: lines 370-389.
TwoConsume(r) ==
  /\ rq[r].pc = "yield"
  /\ rq' = [rq EXCEPT
              ![r].wrote = Append(@, Head(rq[r].pending)),
              ![r].out = @ \o SafeEnqueuedAt(cells[Scope(r)].isClosed, rq[r].sink,
                                            << Head(rq[r].pending) >>),
              ![r].pending = Tail(@),
              ![r].pc = IF Tail(rq[r].pending) = << >> THEN "read" ELSE "yield"]
  /\ cells' = [cells EXCEPT
                 ![Scope(r)].fullContent = NodeAccumulate(@, Head(rq[r].pending))]
  /\ UNCHANGED oneVars

\* reader.read() of request r reports done: lines 178 and 233-240.
TwoReadDone(r) ==
  /\ rq[r].pc = "read"
  /\ LET ys == NodeEndYields(TState(cells[Scope(r)].textStarted, NoText), TextIdOf(r))
     IN rq' = [rq EXCEPT ![r].pending = ys,
                         ![r].pc = IF ys = << >> THEN "finish" ELSE "yield_end"]
  /\ UNCHANGED << cells, oneVars >>

\* The consumer of request r takes text-end: lines 370-389.
TwoConsumeEnd(r) ==
  /\ rq[r].pc = "yield_end"
  /\ rq' = [rq EXCEPT
              ![r].wrote = Append(@, Head(rq[r].pending)),
              ![r].out = @ \o SafeEnqueuedAt(cells[Scope(r)].isClosed, rq[r].sink,
                                            << Head(rq[r].pending) >>),
              ![r].pending = Tail(@),
              ![r].pc = "finish"]
  /\ cells' = [cells EXCEPT
                 ![Scope(r)].fullContent = NodeAccumulate(@, Head(rq[r].pending))]
  /\ UNCHANGED oneVars

\* reader.read() of request r rejects: lines 239 and 390-397.
TwoReadFail(r) ==
  /\ rq[r].pc = "read"
  /\ rq' = [rq EXCEPT
              ![r].wrote = Append(@, ConnErrEv),
              ![r].out = @ \o SafeEnqueuedAt(cells[Scope(r)].isClosed, rq[r].sink,
                                            << ConnErrEv >>),
              ![r].failed = TRUE,
              ![r].pc = "finish"]
  /\ cells' = [cells EXCEPT ![Scope(r)].fullContent = ConnErrText]
  /\ UNCHANGED oneVars

\* Request r writes finish and [DONE]: lines 399-408.
TwoFinish(r) ==
  /\ rq[r].pc = "finish"
  /\ rq' = [rq EXCEPT
              ![r].wrote = @ \o << FinishEv, DoneEv >>,
              ![r].out = @ \o SafeEnqueuedAt(cells[Scope(r)].isClosed, rq[r].sink,
                                            << FinishEv, DoneEv >>),
              ![r].pc = IF cells[Scope(r)].fullContent # NoText THEN "save"
                        ELSE "close"]
  /\ UNCHANGED << cells, oneVars >>

\* saveMessages of request r resolves: lines 409-421.
TwoSave(r) ==
  /\ rq[r].pc = "save"
  /\ rq' = [rq EXCEPT ![r].saved = Append(@, cells[Scope(r)].fullContent),
                      ![r].pc = "close"]
  /\ UNCHANGED << cells, oneVars >>

\* safeClose of request r: lines 432 and 353-362.
TwoClose(r) ==
  /\ rq[r].pc = "close"
  /\ rq' = [rq EXCEPT
              ![r].closeCalls = SafeCloseCalls(cells[Scope(r)].isClosed, @),
              ![r].sink = IF cells[Scope(r)].isClosed THEN @ ELSE "closed",
              ![r].pc = "done"]
  /\ cells' = [cells EXCEPT ![Scope(r)].isClosed = TRUE]
  /\ UNCHANGED oneVars

NextTwo ==
  \E r \in Reqs :
    \/ \E f \in TwoFrames : TwoRead(r, f)
    \/ TwoConsume(r)
    \/ TwoReadDone(r)
    \/ TwoConsumeEnd(r)
    \/ TwoReadFail(r)
    \/ TwoFinish(r)
    \/ TwoSave(r)
    \/ TwoClose(r)

SpecTwo == InitTwo /\ [][NextTwo]_vars

-----------------------------------------------------------------------------
(* transformBackendStream taken alone, from the moment it holds the reader, *)
(* driven by a consumer that may take the next event or end the generator   *)
(* at any yield.                                                            *)

InitGen ==
  /\ StartedNode
  /\ stalled = FALSE
  /\ upstream = << >>
  /\ delivered = 0
  /\ dec = DecStart
  /\ midChar = FALSE
  /\ rq = << >>
  /\ cells = << >>
  /\ DeleteIdle

\* The consumer calls next() while the generator is suspended at a yield of
\* the line loop: lines 201, 214, 219, 224.
GenNext ==
  /\ pc = "yield"
  /\ pending' = Tail(pending)
  /\ pc' = IF Tail(pending) = << >> THEN "read" ELSE "yield"
  /\ UNCHANGED << variant, timer, aux, response, backendCalls, backend, pre,
                  titlePromise, uuids, messageId, textId, nRead, tstate,
                  readerLocks, readerReleases, sink, isClosed, closeCalls,
                  errorCalls, wrote, out, fullContent, saved, titleUpdates,
                  streamFailed, hist >>

\* The consumer calls next() while the generator is suspended at the yield
\* of text-end: the generator leaves the try and completes, lines 236-240.
GenNextEnd ==
  /\ pc = "yield_end"
  /\ pending' = << >>
  /\ readerReleases' = readerReleases + 1
  /\ pc' = "gen_done"
  /\ UNCHANGED << variant, timer, aux, response, backendCalls, backend, pre,
                  titlePromise, uuids, messageId, textId, nRead, tstate,
                  readerLocks, sink, isClosed, closeCalls, errorCalls, wrote,
                  out, fullContent, saved, titleUpdates, streamFailed, hist >>

\* reader.read() rejects: the finally runs and the exception leaves the
\* generator, lines 177 and 238-240.
GenReadFail ==
  /\ pc = "read"
  /\ streamFailed' = TRUE
  /\ readerReleases' = readerReleases + 1
  /\ pc' = "gen_threw"
  /\ UNCHANGED << variant, timer, aux, response, backendCalls, backend, pre,
                  titlePromise, uuids, messageId, textId, nRead, tstate, pending,
                  readerLocks, sink, isClosed, closeCalls, errorCalls, wrote,
                  out, fullContent, saved, titleUpdates, hist >>

\* GenReturn with the yields outside the try of lines 175-240: ending the
\* generator at a yield runs no finally.
GenReturnNoFinally ==
  /\ pc \in {"yield", "yield_end"}
  /\ pending' = << >>
  /\ pc' = "gen_returned"
  /\ UNCHANGED << variant, timer, aux, response, backendCalls, backend, pre,
                  titlePromise, uuids, messageId, textId, nRead, tstate,
                  readerLocks, readerReleases, sink, isClosed, closeCalls,
                  errorCalls, wrote, out, fullContent, saved, titleUpdates,
                  streamFailed, hist >>

\* The consumer ends the generator (return()) while it is suspended at a
\* yield: every yield is inside the try, so the finally runs, lines 238-240.
GenReturn ==
  /\ pc \in {"yield", "yield_end"}
  /\ pending' = << >>
  /\ readerReleases' = readerReleases + 1
  /\ pc' = "gen_returned"
  /\ UNCHANGED << variant, timer, aux, response, backendCalls, backend, pre,
                  titlePromise, uuids, messageId, textId, nRead, tstate,
                  readerLocks, sink, isClosed, closeCalls, errorCalls, wrote,
                  out, fullContent, saved, titleUpdates, streamFailed, hist >>

NextGen ==
  \/ \E f \in NodeFrames : ReadLine(f)
  \/ ReadDoneNode
  \/ GenNext
  \/ GenNextEnd
  \/ GenReadFail
  \/ GenReturn

SpecGen == InitGen /\ [][NextGen]_vars

-----------------------------------------------------------------------------
(* DELETE: lines 461-484 (and 822-845).                                     *)

InitDelete ==
  /\ PostInit
  /\ variant = "node"
  /\ urlSet
  /\ stalled = FALSE
  /\ upstream = << >>
  /\ delivered = 0
  /\ dec = DecStart
  /\ midChar = FALSE
  /\ rq = << >>
  /\ cells = << >>
  /\ chats \in [ChatIds -> Users \cup {Absent}]
  /\ chatsBefore = chats
  /\ delPc = "start"
  /\ delId \in ChatIds \cup {NoChatId}
  /\ delSession = NoUser
  /\ delChat = Absent
  /\ delResponse = "none"
  /\ deleteCalls = 0

\* What no step of a DELETE request changes.
postVars == << reqVars, stalled, chunkVars, twoVars >>

DeleteReject(code) ==
  /\ delResponse' = code
  /\ delPc' = "done"

\* No id parameter: lines 462-467.
DeleteNoId ==
  /\ delPc = "start"
  /\ delId = NoChatId
  /\ DeleteReject("bad_request:api")
  /\ UNCHANGED << postVars, chats, chatsBefore, delId, delSession, delChat,
                  deleteCalls >>

\* The id is there, auth() is awaited: lines 462-469.
DeleteHasId ==
  /\ delPc = "start"
  /\ delId # NoChatId
  /\ delPc' = "auth"
  /\ UNCHANGED << postVars, chats, chatsBefore, delId, delSession, delChat,
                  delResponse, deleteCalls >>

\* auth() yields no session user: lines 469-473.
DeleteAuthFail ==
  /\ delPc = "auth"
  /\ DeleteReject("unauthorized:chat")
  /\ UNCHANGED << postVars, chats, chatsBefore, delId, delSession, delChat,
                  deleteCalls >>

\* auth() yields the session of user u, getChatById is awaited: 469-475.
DeleteAuthOk(u) ==
  /\ delPc = "auth"
  /\ delSession' = u
  /\ delPc' = "chat"
  /\ UNCHANGED << postVars, chats, chatsBefore, delId, delChat, delResponse,
                  deleteCalls >>

\* getChatById resolves with the chat of that id, or with none: line 475.
DeleteGetChat ==
  /\ delPc = "chat"
  /\ delChat' = chats[delId]
  /\ delPc' = "check"
  /\ UNCHANGED << postVars, chats, chatsBefore, delId, delSession, delResponse,
                  deleteCalls >>

\* NotOwner with the test applied to a chat that was found only.
NotOwnerIfFound(chatUserId, userId) ==
  chatUserId # Absent /\ chatUserId # userId

\* chat?.userId !== session.user.id, line 477.
NotOwner(chatUserId, userId) == chatUserId # userId

\* The chat is missing or belongs to another user: lines 477-479.
DeleteForbidden ==
  /\ delPc = "check"
  /\ NotOwner(delChat, delSession)
  /\ DeleteReject("forbidden:chat")
  /\ UNCHANGED << postVars, chats, chatsBefore, delId, delSession, delChat,
                  deleteCalls >>

\* The chat belongs to the session user, deleteChatById is awaited: 477-481.
DeleteOwned ==
  /\ delPc = "check"
  /\ ~NotOwner(delChat, delSession)
  /\ deleteCalls' = deleteCalls + 1
  /\ delPc' = "delete"
  /\ UNCHANGED << postVars, chats, chatsBefore, delId, delSession, delChat,
                  delResponse >>

\* The chat table without the chat of that id.
Without(table, c) == [table EXCEPT ![c] = Absent]

\* deleteChatById resolves, the handler answers 200: lines 481-483.
DeleteDone ==
  /\ delPc = "delete"
  /\ chats' = Without(chats, delId)
  /\ delResponse' = "ok"
  /\ delPc' = "done"
  /\ UNCHANGED << postVars, chatsBefore, delId, delSession, delChat, deleteCalls >>

\* auth(), getChatById or deleteChatById rejects: the handler has no catch
\* and rejects.  A rejected deleteChatById may or may not have deleted.
DeleteThrows ==
  /\ delPc \in {"auth", "chat", "delete"}
  /\ chats' \in (IF delPc = "delete" THEN {chats, Without(chats, delId)} ELSE {chats})
  /\ DeleteReject("unhandled")
  /\ UNCHANGED << postVars, chatsBefore, delId, delSession, delChat, deleteCalls >>

NextDelete ==
  \/ DeleteNoId
  \/ DeleteHasId
  \/ DeleteAuthFail
  \/ \E u \in Users : DeleteAuthOk(u)
  \/ DeleteGetChat
  \/ DeleteForbidden
  \/ DeleteOwned
  \/ DeleteDone
  \/ DeleteThrows

SpecDelete == InitDelete /\ [][NextDelete]_vars

-----------------------------------------------------------------------------
(* Properties.                                                              *)

TypeAt(seq, i) == seq[i].type

Positions(seq, t) == { i \in DOMAIN seq : seq[i].type = t }

Count(seq, t) == Cardinality(Positions(seq, t))

TypesOf(seq) == [i \in DOMAIN seq |-> seq[i].type]

\* The request was answered with a stream over an upstream body, and start()
\* has returned.
StreamOver == pc = "done" /\ response = "stream" /\ backend = "body"

\* The delta of a text-delta event, as a client's JSON.parse reads it.
DeltaOf(ev) == JsonUnescape(ev.data)

RECURSIVE ConcatDeltas(_)
ConcatDeltas(seq) ==
  IF seq = << >> THEN << >>
  ELSE (IF Head(seq).type = "text-delta" THEN DeltaOf(Head(seq)) ELSE << >>)
         \o ConcatDeltas(Tail(seq))

\* C1: once a streaming response has run to its end, whatever the upstream
\* did, the events written to the client contain exactly one finish and
\* exactly one [DONE], finish directly before [DONE], and nothing after [DONE].
C1_TerminalPairOnce ==
  StreamOver =>
    /\ Count(wrote, "finish") = 1
    /\ Count(wrote, "[DONE]") = 1
    /\ Len(wrote) >= 2
    /\ TypeAt(wrote, Len(wrote) - 1) = "finish"
    /\ TypeAt(wrote, Len(wrote)) = "[DONE]"

\* C2: when the generator raised after streaming started, the events written
\* end with the synthetic error, finish with reason "stop" and [DONE], the
\* stream is then closed, and it is never errored.
C2_FailureEndsWellFormed ==
  (StreamOver /\ streamFailed) =>
    /\ Len(wrote) >= 3
    /\ SubSeq(wrote, Len(wrote) - 2, Len(wrote)) = << ConnErrEv, FinishEv, DoneEv >>
    /\ closeCalls = 1
    /\ errorCalls = 0
    /\ sink # "errored"

\* C3 as stated: when callRenderBackend throws, the client receives start,
\* error, finish, [DONE] and the stream is closed exactly once.
C3_ThrowStillStreams ==
  (pc = "done" /\ backend = "threw") =>
    /\ TypesOf(wrote) = << "start", "error", "finish", "[DONE]" >>
    /\ closeCalls = 1

\* C3 as amended: when callRenderBackend throws, no stream is started: POST
\* answers offline:chat, no event is written and no stream is opened or
\* closed.  The sequence start, error, finish("stop"), [DONE] with exactly one
\* close is what the node-tagged variant writes when the first reader.read()
\* rejects.
C3_ThrowAnswersOffline ==
  /\ backend = "threw" =>
       /\ pc = "done"
       /\ response = "offline:chat"
       /\ wrote = << >>
       /\ sink = "none"
       /\ closeCalls = 0
       /\ errorCalls = 0
       /\ saved = << >>
  /\ (StreamOver /\ variant = "node" /\ streamFailed /\ nRead = 0) =>
       /\ wrote = << Ev("start", messageId, NoText), ConnErrEv, FinishEv, DoneEv >>
       /\ closeCalls = 1

C3_Witness == pc = "done" /\ backend = "threw" /\ backendCalls = 1

\* The order of the text span in a sequence of events.
SpanOrdered(seq) ==
  /\ \A i \in Positions(seq, "text-delta") :
       \E j \in Positions(seq, "text-start") : j < i /\ seq[j].id = seq[i].id
  /\ Count(seq, "text-end") <= 1
  /\ \A i \in Positions(seq, "text-end") :
       \A j \in Positions(seq, "text-delta") : j < i
  /\ \A i \in DOMAIN seq :
       seq[i].type \in {"text-start", "text-delta", "text-end"} =>
         seq[i].id = textId /\ textId # NoId
  /\ textIn = << >> =>
       Count(seq, "text-start") = 0 /\ Count(seq, "text-end") = 0

\* C4: in the node-tagged variant every text-delta follows a text-start of
\* the same id, text-end occurs at most once and after every text-delta, the
\* three kinds carry the request's text id, and without any agent/model
\* content frame neither text-start nor text-end is written.
C4_SpanOrder ==
  variant = "node" => SpanOrdered(wrote) /\ SpanOrdered(out)

C4_Witness ==
  /\ variant = "node"
  /\ pc = "done"
  /\ Count(out, "text-delta") >= 2
  /\ Count(out, "text-end") = 1

\* An event as a client's JSON.parse reads it.
Decoded(ev) == Ev(ev.type, ev.id, JsonUnescape(ev.data))

DecodedSeq(seq) == [i \in DOMAIN seq |-> Decoded(seq[i])]

\* start, text-start, one text-delta per content, text-end, finish, [DONE].
TextStream(contents) ==
  << Ev("start", messageId, NoText), Ev("text-start", textId, NoText) >>
  \o [i \in DOMAIN contents |-> Ev("text-delta", textId, contents[i])]
  \o << Ev("text-end", textId, NoText), FinishEv, DoneEv >>

\* The upstream sent only agent/model content frames and [DONE] lines and
\* then ended, and start() has returned.
OnlyTextOver ==
  /\ variant = "node"
  /\ StreamOver
  /\ ~streamFailed
  /\ onlyText

\* C5 as stated: for any sequence of agent/model content frames followed by
\* the end of the stream, the events written are start, one text-start, one
\* text-delta per frame with the frame's content verbatim and in order, one
\* text-end, finish, [DONE].
C5_OnlyTextExact ==
  OnlyTextOver => DecodedSeq(wrote) = TextStream(textIn)

\* C5 as amended: the same for any non-empty sequence of agent/model frames
\* with non-empty string content; for the empty sequence the events written
\* are start, finish, [DONE], without text-start and text-end.
C5_OnlyTextExactNonEmpty ==
  OnlyTextOver =>
    DecodedSeq(wrote) =
      IF textIn # << >> THEN TextStream(textIn)
      ELSE << Ev("start", messageId, NoText), FinishEv, DoneEv >>

C5_Witness ==
  /\ OnlyTextOver
  /\ sink = "closed"
  /\ Len(textIn) = 3
  /\ textIn[1] # textIn[2]
  /\ out = wrote

\* C6: the assistant text handed to saveMessages is the concatenation, in
\* order, of the deltas of the text-delta events written in the request.
C6_SavedIsConcatOfDeltas ==
  /\ pc = "save" => fullContent = ConcatDeltas(wrote)
  /\ \A i \in DOMAIN saved : saved[i] = ConcatDeltas(wrote)

\* C7: saveMessages receives an assistant message at most once per request,
\* and never when no text-delta was written.
C7_SaveOnceOnlyWithText ==
  /\ Len(saved) <= 1
  /\ Count(wrote, "text-delta") = 0 => (pc # "save" /\ saved = << >>)

\* A frame of a tool-execution step: an object whose node is neither "agent"
\* nor "model".
IsToolFrame(f) == f.k = "obj" /\ f.node \notin {"agent", "model"}

\* C8: a frame of a tool-execution step yields no text-delta and leaves
\* textStarted as it was; text-delta events come from agent/model content
\* frames only.
C8_ToolFramesSilent ==
  variant = "node" =>
    /\ IsToolFrame(last.frame) =>
         /\ Count(last.yields, "text-delta") = 0
         /\ Count(last.yields, "text-start") = 0
         /\ last.after.textStarted = last.before.textStarted
    /\ Count(wrote \o pending, "text-delta") <= Len(textIn)

C8_Witness ==
  /\ variant = "node"
  /\ last.frame.k = "obj"
  /\ last.frame.node = "tools"
  /\ last.frame.content # NoText
  /\ last.before.textStarted
  /\ nRead = 3

\* C9: a frame with type "ping" yields exactly one data-heartbeat event and
\* nothing else, and leaves the transcoder state as it was, also when it
\* carries content and node.
C9_PingIsHeartbeatOnly ==
  (variant = "node" /\ last.frame.k = "obj" /\ last.frame.type = "ping") =>
    /\ Len(last.yields) = 1
    /\ last.yields[1].type = "data-heartbeat"
    /\ last.after = last.before

C9_Witness ==
  /\ variant = "node"
  /\ last.frame.type = "ping"
  /\ last.frame.node = "agent"
  /\ last.frame.content # NoText
  /\ ~last.before.textStarted
  /\ Count(wrote, "data-heartbeat") = 1

\* The deltas of the events of seq, as the client reads them.
DeltasOf(seq) == [i \in DOMAIN seq |-> DeltaOf(seq[i])]

StrictlyExtends(c, l) ==
  /\ Len(c) > Len(l)
  /\ \A i \in 1..Len(l) : c[i] = l[i]

Suffix(c, l) == [i \in 1..(Len(c) - Len(l)) |-> c[Len(l) + i]]

\* C10: in the whole-content variant a content that strictly extends
\* lastContent yields the new suffix, a content that is no extension yields
\* the whole content, an equal content yields nothing, and lastContent
\* becomes the content exactly when a delta is yielded; while every content
\* extends the one before, the yielded deltas concatenate to the last content.
C10_WholeContentDiff ==
  variant = "whole" =>
    /\ IsContentFrame(last.frame) =>
         LET c == last.frame.content
             l == last.before.lastContent
         IN /\ StrictlyExtends(c, l) =>
                 /\ Positions(last.yields, "text-delta") = {1}
                 /\ DeltasOf(last.yields) = << Suffix(c, l) >>
            /\ (c # l /\ ~StrictlyExtends(c, l)) =>
                 /\ Positions(last.yields, "text-delta") = {1}
                 /\ DeltasOf(last.yields) = << c >>
            /\ c = l => last.yields = << >>
            /\ last.yields # << >> => last.after.lastContent = c
            /\ last.yields = << >> => last.after.lastContent = l
    /\ extending => ConcatDeltas(wrote \o pending) = tstate.lastContent

C10_Witness ==
  /\ variant = "whole"
  /\ extending
  /\ nRead = 3
  /\ last.before.lastContent = <<"a">>
  /\ last.frame.content = <<"a", "b">>
  /\ Count(wrote, "text-delta") = 2

\* The decoding state after the first n bytes arrived as a single chunk.
OneChunk(n) ==
  IF n = 0 THEN DecStart
  ELSE DecodeStep(DecStart, SubSeq(upstream, 1, n), textId)

\* C11: however the bytes delivered so far were cut into chunks, also inside
\* a line and inside a two-byte character, the payloads seen, the events
\* yielded, the buffer and the bytes held back are those of the delivery of
\* the same bytes as one chunk.
C11_ChunkingIrrelevant == dec = OneChunk(delivered)

C11_Witness ==
  /\ midChar
  /\ delivered = Len(upstream)
  /\ Len(dec.payloads) = 2
  /\ dec.payloads[2] = AgentPayload(<<EAcute>>)
  /\ Count(dec.yielded, "text-delta") = 2
  /\ dec.buffer # << >>

\* C12: in the node-tagged variant controller.close is called exactly once
\* per started stream, on every path (normal end, reader failure, rejected
\* saveMessages, rejected title promise, client gone), never before the
\* handler is through, and never beside controller.error; a safeClose call in
\* the closed state would call nothing.
C12_ClosedExactlyOnce ==
  variant = "node" =>
    /\ closeCalls <= 1
    /\ errorCalls = 0
    /\ (response = "stream" /\ pc # "done") => (closeCalls = 0 /\ ~isClosed)
    /\ (response = "stream" /\ pc = "done") =>
         /\ closeCalls = 1
         /\ isClosed
         /\ sink \in {"closed", "cancelled"}
    /\ isClosed => SafeCloseCalls(isClosed, closeCalls) = closeCalls

\* saveMessages rejected after a reader failure, with the client gone: the
\* one controller.close call threw inside safeClose.
C12_Witness ==
  /\ variant = "node"
  /\ pc = "done"
  /\ response = "stream"
  /\ streamFailed
  /\ fullContent # NoText
  /\ saved = << >>
  /\ sink = "cancelled"
  /\ closeCalls = 1

\* C13: in the node-tagged variant a write issued while the stream is not
\* open delivers nothing, changes neither the stream nor isClosed, calls no
\* controller.error, and the handler goes on exactly as after a write that
\* succeeded; a write in the closed state would deliver nothing.
C13_WriteAfterCloseDropped ==
  /\ [](isClosed => SafeEnqueued(<< DoneEv >>) = << >>)
  /\ [][ (variant = "node" /\ wrote' # wrote /\ (isClosed \/ sink \in {"closed", "cancelled"})) =>
           /\ out' = out
           /\ sink' = sink
           /\ isClosed' = isClosed
           /\ errorCalls' = errorCalls
           /\ pc = "yield" =>
                /\ pc' = (IF Tail(pending) = << >> THEN "read" ELSE "yield")
                /\ fullContent' = NodeAccumulate(fullContent, Head(pending))
           /\ pc = "yield_end" => pc' = "finish"
           /\ pc = "read" => pc' = "finish"
           /\ pc = "finish" =>
                /\ pc' = AfterLoop
                /\ SubSeq(wrote', Len(wrote) + 1, Len(wrote')) = << FinishEv, DoneEv >>
         ]_vars

\* The client went away during the stream, and the handler still wrote the
\* rest, persisted the text and closed.
C13_Witness ==
  /\ variant = "node"
  /\ pc = "done"
  /\ sink = "cancelled"
  /\ Len(out) = 3
  /\ Len(wrote) = 6
  /\ saved = << << "a" >> >>
  /\ closeCalls = 1

IsTextDelta(ev) == ev.type = "text-delta"

\* C14: a line whose payload JSON.parse rejects, or whose payload is null,
\* yields nothing and leaves the transcoder state as it was, and the loop goes
\* on; in the node-tagged variant the text-delta events are, in order, the
\* contents of the agent/model content frames read, with one text-start
\* before them, whatever malformed lines came between.
C14_MalformedSkipped ==
  /\ last.frame.k \in {"malformed", "null"} =>
       /\ last.yields = << >>
       /\ last.after = last.before
       /\ pc # "yield"
  /\ variant = "node" =>
       /\ DeltasOf(SelectSeq(wrote \o pending, IsTextDelta)) = textIn
       /\ Count(wrote \o pending, "text-start") = (IF textIn = << >> THEN 0 ELSE 1)

C14_Witness ==
  /\ variant = "node"
  /\ last.frame.k = "malformed"
  /\ last.before.textStarted
  /\ nRead = 2
  /\ pc = "read"
  /\ ~streamFailed

\* C15: a request answered with bad_request, unauthorized, forbidden or
\* rate_limit has issued no request to the backend.
C15_RejectedBeforeBackend ==
  response \in {"bad_request:api", "unauthorized:chat", "forbidden:chat",
                "rate_limit:chat"} =>
    /\ backendCalls = 0
    /\ backend = "none"
    /\ wrote = << >>

\* The empty extracted text is found after the user message was stored.
C15_Witness ==
  /\ response = "bad_request:api"
  /\ msgRole = "user"
  /\ userSaved
  /\ backendCalls = 0

\* The terminal path of a request: the offline:chat answer before streaming,
\* or finish and [DONE] written and the stream closed.
Terminal ==
  /\ pc = "done"
  /\ \/ response = "offline:chat"
     \/ /\ response = "stream"
        /\ Count(wrote, "finish") = 1
        /\ Count(wrote, "[DONE]") = 1
        /\ closeCalls = 1

\* C16: once the upstream has stopped delivering, before the response
\* headers or during the stream, the request reaches its terminal path.
C16_StallReachesTerminal == stalled ~> Terminal

\* C17: in the node-tagged variant the events written after start are, in
\* the order written, the events the generator yielded in the order of the
\* lines read, followed only by the handler's own error, finish and [DONE];
\* every event of a line is written before the next read; the events the
\* stream accepted are an initial part of the events written.
C17_WrittenInDerivedOrder ==
  (variant = "node" /\ response = "stream") =>
    LET n == Len(derived) - Len(pending)
    IN /\ n >= 0
       /\ Len(wrote) >= n + 1
       /\ SubSeq(wrote, 2, n + 1) \o pending = derived
       /\ \A i \in (n + 2)..Len(wrote) : wrote[i] \in {ConnErrEv, FinishEv, DoneEv}
       /\ pc = "read" => pending = << >>
       /\ Len(out) <= Len(wrote)
       /\ SubSeq(wrote, 1, Len(out)) = out

C17_Witness ==
  /\ variant = "node"
  /\ pc = "done"
  /\ TypesOf(derived) =
       << "text-start", "text-delta", "data-heartbeat", "text-delta", "text-end" >>
  /\ DeltaOf(derived[2]) # DeltaOf(derived[4])
  /\ out = wrote
  /\ Len(wrote) = 8

\* C18: at most one request is sent to the backend; in the node-tagged
\* variant, when it fails (fetch rejects, the timer aborts it, the status is
\* not ok, or the response has no body) POST answers offline:chat, and no
\* stream is opened, no event written and no assistant message stored.
C18_SingleAttempt ==
  /\ backendCalls <= 1
  /\ (variant = "node" /\ pc = "done" /\ backend \in {"threw", "nobody"}) =>
       /\ backendCalls = 1
       /\ response = "offline:chat"
       /\ sink = "none"
       /\ wrote = << >>
       /\ out = << >>
       /\ saved = << >>
       /\ closeCalls = 0

\* The timer aborted a fetch that got no answer.
C18_Witness ==
  /\ variant = "node"
  /\ pc = "done"
  /\ stalled
  /\ timer = "cleared"
  /\ backend = "threw"
  /\ response = "offline:chat"
  /\ backendCalls = 1

\* C20: the title is stored only once finish and [DONE] have been written,
\* and no title event is written after finish or [DONE].
C20_TitleAfterTerminal ==
  /\ titleUpdates > 0 =>
       \E i \in 1..(Len(wrote) - 1) : wrote[i] = FinishEv /\ wrote[i + 1] = DoneEv
  /\ \A i \in Positions(wrote, "data-chat-title") :
       \A j \in Positions(wrote, "finish") \cup Positions(wrote, "[DONE]") : i < j

\* What the generator yields for the lines fs when it runs alone, from
\* textStarted = started.
RECURSIVE AloneYields(_, _, _)
AloneYields(fs, started, tid) ==
  IF fs = << >> THEN << >>
  ELSE LET st == TState(started, NoText)
       IN NodeYields(Head(fs), st, tid)
            \o AloneYields(Tail(fs), NodeAfter(Head(fs), st).textStarted, tid)

AloneStarted(fs) ==
  \E i \in DOMAIN fs : NodeAfter(fs[i], TState(FALSE, NoText)).textStarted

\* The events a request writes when it alone reads the lines fs and its
\* reader then ends, or fails.
AloneWrote(fs, failed, mid, tid) ==
  << Ev("start", mid, NoText) >>
  \o AloneYields(fs, FALSE, tid)
  \o (IF failed THEN << ConnErrEv >>
      ELSE NodeEndYields(TState(AloneStarted(fs), NoText), tid))
  \o << FinishEv, DoneEv >>

\* The assistant texts it stores.
AloneSaved(fs, failed, tid) ==
  IF failed THEN << ConnErrText >>
  ELSE IF ConcatDeltas(AloneYields(fs, FALSE, tid)) = NoText THEN << >>
       ELSE << ConcatDeltas(AloneYields(fs, FALSE, tid)) >>

\* C19: whatever the interleaving of the steps of two requests, each one
\* writes, delivers and stores what it does when it alone reads the same
\* lines, and closes its own stream once.
C19_NoInterference ==
  \A r \in DOMAIN rq :
    /\ rq[r].out = rq[r].wrote
    /\ rq[r].pc \in {"read", "yield"} =>
         rq[r].wrote \o rq[r].pending
           = << Ev("start", MessageIdOf(r), NoText) >>
               \o AloneYields(rq[r].frames, FALSE, TextIdOf(r))
    /\ rq[r].pc = "done" =>
         /\ rq[r].wrote
              = AloneWrote(rq[r].frames, rq[r].failed, MessageIdOf(r), TextIdOf(r))
         /\ rq[r].saved = AloneSaved(rq[r].frames, rq[r].failed, TextIdOf(r))
         /\ rq[r].closeCalls = 1
         /\ rq[r].sink = "closed"

\* Both requests are suspended between the text-start and the text-delta of
\* a line, the first after a heartbeat it has already written.
C19_Witness ==
  /\ DOMAIN rq = Reqs
  /\ \A r \in Reqs :
       /\ rq[r].pc = "yield"
       /\ TypesOf(rq[r].pending) = << "text-delta" >>
       /\ cells[r].textStarted
  /\ TypesOf(rq[1].wrote) = << "start", "data-heartbeat", "text-start" >>
  /\ TypesOf(rq[2].wrote) = << "start", "text-start" >>

\* The last two events of a sequence.
LastTwo(seq) == SubSeq(seq, Len(seq) - 1, Len(seq))

\* start() has returned after the assistant saveMessages call was made and
\* rejected: there was text to store and none was stored.
SaveRejected ==
  /\ variant = "node"
  /\ pc = "done"
  /\ response = "stream"
  /\ fullContent # NoText
  /\ saved = << >>

\* C21: in the node-tagged variant, when the assistant saveMessages call is
\* made finish and [DONE] are the last events written, and delivered if the
\* client is still there; when the call rejects nothing more is written, the
\* only error events are those of the upstream and of a reader failure,
\* controller.close is called exactly once and controller.error never.
C21_SaveFailureSilent ==
  /\ (variant = "node" /\ pc = "save") =>
       /\ Len(wrote) >= 3
       /\ LastTwo(wrote) = << FinishEv, DoneEv >>
       /\ sink = "open" => (out = wrote)
       /\ closeCalls = 0
  /\ SaveRejected =>
       /\ LastTwo(wrote) = << FinishEv, DoneEv >>
       /\ Count(wrote, "finish") = 1
       /\ Count(wrote, "[DONE]") = 1
       /\ Count(wrote, "error")
            = Count(derived, "error") + (IF streamFailed THEN 1 ELSE 0)
       /\ closeCalls = 1
       /\ errorCalls = 0
       /\ isClosed
       /\ titleUpdates = 0

\* The text was streamed to a client that stayed, and storing it failed.
C21_Witness ==
  /\ SaveRejected
  /\ ~streamFailed
  /\ sink = "closed"
  /\ out = wrote
  /\ Count(wrote, "text-delta") = 2
  /\ Count(wrote, "error") = 0

\* C22: without a configured backend URL a request never gets as far as the
\* session lookup: it stores nothing, calls no backend and opens no stream,
\* and once its body is parsed it is answered with an error response.
C22_ConfigMissingFailsFast ==
  ~urlSet =>
    /\ pc \in {"parse", "done"}
    /\ ~chatSaved
    /\ ~userSaved
    /\ ~titlePromise
    /\ saved = << >>
    /\ titleUpdates = 0
    /\ backendCalls = 0
    /\ backend = "none"
    /\ timer = "none"
    /\ sink = "none"
    /\ wrote = << >>
    /\ msgRole # "none" => (pc = "done" /\ response = "bad_request:api")

C22_Witness ==
  /\ ~urlSet
  /\ msgRole = "user"
  /\ pc = "done"
  /\ response = "bad_request:api"

\* C23: in the node-tagged variant text-start is yielded at most once per
\* request, directly before the first text-delta and with its id; an
\* agent/model content frame read before the span is open yields text-start
\* and its text-delta, one read after yields its text-delta alone, whatever
\* lines were read in between.
C23_TextStartOnce ==
  variant = "node" =>
    /\ Count(derived, "text-start") <= 1
    /\ Count(wrote \o pending, "text-start") <= 1
    /\ \A i \in Positions(derived, "text-start") :
         /\ i < Len(derived)
         /\ derived[i + 1].type = "text-delta"
         /\ derived[i + 1].id = derived[i].id
         /\ \A j \in Positions(derived, "text-delta") : i < j
    /\ IsTextFrame(last.frame) =>
         /\ last.after.textStarted
         /\ DecodedSeq(last.yields) =
              (IF last.before.textStarted THEN << >>
               ELSE << Ev("text-start", textId, NoText) >>)
              \o << Ev("text-delta", textId, last.frame.content) >>

\* An error frame was read between two agent/model content frames.
C23_Witness ==
  /\ variant = "node"
  /\ pc = "read"
  /\ nRead = 3
  /\ IsTextFrame(last.frame)
  /\ last.before.textStarted
  /\ TypesOf(wrote) = << "start", "text-start", "text-delta", "error", "text-delta" >>

\* A frame with an error value and without string content, that is no ping.
IsErrorFrame(f) ==
  /\ f.k = "obj"
  /\ f.type # "ping"
  /\ f.content = NoText
  /\ f.error # NoText

\* Positions after the for-await loop of start().
AfterLoopPcs == {"finish", "save", "title", "close", "done"}

\* C24: in the node-tagged variant an error frame yields exactly one error
\* event with the frame's error text and leaves textStarted as it was;
\* text-start is never yielded again; text-end is yielded at most once, as the
\* last event of the generator and only once reader.read() reported the end
\* of the stream, and exactly once when the span was open at that end.
C24_ErrorKeepsSpan ==
  variant = "node" =>
    /\ IsErrorFrame(last.frame) =>
         /\ DecodedSeq(last.yields) = << Ev("error", NoId, last.frame.error) >>
         /\ last.after = last.before
    /\ Count(derived, "text-start") = (IF tstate.textStarted THEN 1 ELSE 0)
    /\ Count(derived, "text-end") <= 1
    /\ \A i \in Positions(derived, "text-end") :
         /\ i = Len(derived)
         /\ pc \in {"yield_end"} \cup AfterLoopPcs
         /\ ~streamFailed
    /\ (response = "stream" /\ pc \in AfterLoopPcs /\ ~streamFailed) =>
         Count(wrote, "text-end") = (IF tstate.textStarted THEN 1 ELSE 0)

\* An error frame arrived inside the open span, and the span went on.
C24_Witness ==
  /\ variant = "node"
  /\ pc = "done"
  /\ TypesOf(wrote) =
       << "start", "text-start", "text-delta", "error", "text-delta", "text-end",
          "finish", "[DONE]" >>
  /\ out = wrote

\* C25: a line whose payload is [DONE] yields no event and leaves the
\* transcoder state as it was, and the loop goes on: a line read after it is
\* transcoded as if the [DONE] line had not been there.
C25_DoneLineSilent ==
  /\ last.frame.k = "done" =>
       /\ last.yields = << >>
       /\ last.after = last.before
       /\ pc # "yield"
  /\ \A f \in Frames :
       (pc = "read" /\ last.frame.k = "done") =>
         LineYields(f) = (IF variant = "node"
                          THEN NodeYields(f, last.before, textId)
                          ELSE WholeYields(f, last.before))

\* Positions at which the generator is suspended inside its try.
GenSuspended == {"read", "yield", "yield_end"}

\* C26: the generator that holds the reader has not released it while it is
\* suspended, and has released it exactly once when it is over, whether it
\* completed, threw from reader.read(), or was ended by its consumer at a
\* yield.
C26_ReaderReleasedOnce ==
  /\ readerLocks = 1
  /\ readerReleases = (IF pc \in GenSuspended THEN 0 ELSE 1)
  /\ pc \in GenSuspended \cup {"finish", "gen_done", "gen_threw", "gen_returned"}

\* The consumer ended the generator between the text-start and the
\* text-delta of the second line.
C26_Witness ==
  /\ pc = "gen_returned"
  /\ readerReleases = 1
  /\ nRead = 2
  /\ TypesOf(derived) = << "data-heartbeat", "text-start", "text-delta" >>
  /\ ~streamFailed

\* C27: once finish is written, every text-start written before it has a
\* text-end of the same id between itself and finish.
C27_SpanClosedBeforeFinish ==
  \A k \in Positions(wrote, "finish") :
    \A i \in Positions(wrote, "text-start") :
      \E j \in Positions(wrote, "text-end") :
        /\ i < j
        /\ j < k
        /\ wrote[j].id = wrote[i].id

\* The position of the last line feed of a byte stream, 0 without one.
LastLF(u) ==
  IF \A i \in DOMAIN u : u[i] # LF THEN 0
  ELSE CHOOSE i \in DOMAIN u : u[i] = LF /\ \A j \in (i + 1)..Len(u) : u[j] # LF

\* The byte stream up to its last line feed, and what follows it.
WithoutTail(u) == SubSeq(u, 1, LastLF(u))
TailOf(u) == SubSeq(u, LastLF(u) + 1, Len(u))

\* C28: when the stream has ended, what follows the last line feed is still
\* in buffer, and the events yielded, the payloads seen and textStarted are
\* those of the stream cut after its last line feed.
C28_UnterminatedTailDropped ==
  pc = "gen_done" =>
    LET d == DecodeStep(DecStart, WithoutTail(upstream), textId)
    IN /\ dec.buffer = TailOf(upstream)
       /\ dec.payloads = d.payloads
       /\ dec.textStarted = d.textStarted
       /\ derived = d.yielded \o NodeEndYields(TState(d.textStarted, NoText), textId)

\* The stream ended with an agent frame that lacks its line feed, after one
\* complete agent frame.
C28_Witness ==
  /\ pc = "gen_done"
  /\ dec.buffer = DataPrefix \o AgentPayload(<<"y">>)
  /\ TypesOf(derived) = << "text-start", "text-delta", "text-end" >>
  /\ DeltaOf(derived[2]) = << "x" >>

\* C29: in the node-tagged variant, once the client is gone and as long as
\* reader.read() does not reject, the handler stays in step with the
\* generator: everything yielded is handed to safeEnqueue and accumulated,
\* start() returns only after the generator completed at the end of the
\* upstream, and the text handed to saveMessages, and stored, is the
\* concatenation of all deltas yielded, delivered or not.
C29_DisconnectKeepsPipeline ==
  (variant = "node" /\ sink = "cancelled" /\ ~streamFailed) =>
    /\ Len(out) <= Len(wrote)
    /\ pc \in {"read", "yield", "yield_end"} =>
         /\ wrote \o pending = << Ev("start", messageId, NoText) >> \o derived
         /\ fullContent = ConcatDeltas(wrote)
         /\ closeCalls = 0
    /\ pc \in AfterLoopPcs =>
         /\ Count(derived, "text-end") = (IF tstate.textStarted THEN 1 ELSE 0)
         /\ fullContent = ConcatDeltas(derived)
    /\ pc \in AfterLoopPcs \ {"finish"} =>
         wrote = << Ev("start", messageId, NoText) >> \o derived
                   \o << FinishEv, DoneEv >>
    /\ \A i \in DOMAIN saved : saved[i] = ConcatDeltas(derived)
    /\ pc = "done" => closeCalls = 1

\* The client left after the first delta; the second was read, accumulated
\* and stored with the first.
C29_Witness ==
  /\ variant = "node"
  /\ pc = "done"
  /\ sink = "cancelled"
  /\ ~streamFailed
  /\ Count(out, "text-delta") = 1
  /\ Count(wrote, "text-delta") = 2
  /\ Len(saved) = 1
  /\ saved[1] = DeltaOf(wrote[3]) \o DeltaOf(wrote[4])
  /\ TypesOf(wrote) =
       << "start", "text-start", "text-delta", "text-delta", "text-end",
          "finish", "[DONE]" >>

\* Positions of POST after the user's side was stored, up to the backend call.
AfterUserSave == {"extract", "call", "fetch", "start"}

\* POST answered after the extraction found no text, or after the backend
\* call failed or brought no body.
FailedAfterUserSave ==
  /\ pc = "done"
  /\ \/ response = "bad_request:api" /\ urlSet /\ msgRole # "none"
     \/ response = "offline:chat" /\ backend \in {"threw", "nobody"}

\* C30: the title promise exists only once the new chat is stored; a request
\* with a user message that has reached the extraction or the backend call
\* has its user message stored; a request answered after an empty extraction
\* or a failed backend call keeps what it stored and has stored no assistant
\* message and no title.
C30_UserSideStoredFirst ==
  /\ titlePromise => chatSaved
  /\ (msgRole = "user" /\ (pc \in AfterUserSave \/ backendCalls > 0)) => userSaved
  /\ (chatSaved \/ userSaved) => msgRole = "user"
  /\ (FailedAfterUserSave /\ msgRole = "user") =>
       /\ userSaved
       /\ titlePromise => chatSaved
       /\ saved = << >>
       /\ titleUpdates = 0
       /\ wrote = << >>

\* A new chat and its user message were stored, and the backend call failed.
C30_Witness ==
  /\ FailedAfterUserSave
  /\ response = "offline:chat"
  /\ backend = "threw"
  /\ msgRole = "user"
  /\ titlePromise
  /\ chatSaved
  /\ userSaved
  /\ saved = << >>

\* The answers of the four refusals of DELETE.
DeleteErrors == {"bad_request:api", "unauthorized:chat", "forbidden:chat"}

\* C31: deleteChatById is called at most once, and only with an id, a
\* session user and a chat of that id that the table held for that user when
\* the request arrived; without an id, without a session user, for a chat
\* that does not exist and for a chat of another user the handler answers
\* with an error and the table is as it was; a 200 answer means the chat
\* was deleted and no other.
C31_DeleteOnlyOwned ==
  /\ deleteCalls <= 1
  /\ deleteCalls = 1 =>
       /\ delId # NoChatId
       /\ delSession # NoUser
       /\ chatsBefore[delId] = delSession
  /\ deleteCalls = 0 => chats = chatsBefore
  /\ (delPc = "done" /\ delResponse # "unhandled") =>
       IF delId = NoChatId THEN delResponse = "bad_request:api"
       ELSE IF delSession = NoUser THEN delResponse = "unauthorized:chat"
       ELSE IF chatsBefore[delId] # delSession THEN delResponse = "forbidden:chat"
       ELSE delResponse = "ok"
  /\ delResponse \in DeleteErrors => (deleteCalls = 0 /\ chats = chatsBefore)
  /\ delResponse = "ok" =>
       (deleteCalls = 1 /\ chats = Without(chatsBefore, delId))

\* The session user deleted their chat; the chat of the other user is there.
C31_Witness ==
  /\ delPc = "done"
  /\ delResponse = "ok"
  /\ deleteCalls = 1
  /\ delSession = "u1"
  /\ chatsBefore[delId] = "u1"
  /\ chats[delId] = Absent
  /\ \E c \in ChatIds : chats[c] = "u2"

====
